---- MODULE Spec2Model ----
(***************************************************************************)
(* MyVault (src/main.py): the authentication and progressive-lockout       *)
(* engine of MyVaultApp.  The state is the persisted "auth" StorageBox,    *)
(* the lockout cache held in the MyVaultApp object, the page shown, the    *)
(* open dialog, the closures of every login session built by               *)
(* _build_verification_page (verified, current_step) together with the     *)
(* worker threads they started, and the pending countdown timers.          *)
(*                                                                         *)
(* Time is the wall clock in whole seconds.  Worker threads are split at   *)
(* the time.sleep that separates marking a factor from _next_step.         *)
(***************************************************************************)
EXTENDS Integers, Sequences, FiniteSets, TLC

\* ---------------------------------------------------------------- bounds
MaxTime == 120
TickSeconds == 60
MaxSessions == 2
MaxInFlight == 2
MaxTimers == 1
MaxStoredCount == 8

\* ------------------------------------------------------ program constants
MAX_ATTEMPTS == 3
LOCKOUT_BASE_TIME == 60
LOCKOUT_MULTIPLIER == 2
MAX_LOCKOUT_TIME == 3600

\* ------------------------------------------------------------------ text
\* A str is a sequence of one-character strings.
Strip(s) ==
    LET idx == {i \in 1..Len(s) : s[i] # " "}
        Min(S) == CHOOSE x \in S : \A y \in S : x <= y
        Max(S) == CHOOSE x \in S : \A y \in S : x >= y
    IN  IF idx = {} THEN <<>> ELSE SubSeq(s, Min(idx), Max(idx))

LowerChar(c) ==
    CASE c = "A" -> "a"
      [] c = "B" -> "b"
      [] c = "P" -> "p"
      [] OTHER -> c

Lower(s) == [i \in 1..Len(s) |-> LowerChar(s[i])]

\* hmac.new(salt, passkey, sha256).hexdigest(): a keyed hash, taken to be
\* injective in (salt, passkey); the digest is never the empty string.
hash_passkey(passkey, salt) == <<"hmac", salt, passkey>>

\* ------------------------------------------------------------- StorageBox
\* A stored value is a tagged tuple, so that values of different Python
\* types stay comparable: a missing key, None, an int, a str.
Absent == <<"absent">>
None == <<"none">>
IntV(n) == <<"int", n>>
StrV(s) == <<"str", s>>
ValueOf(v) == v[2]

AuthKeys == {"salt", "pass_hash", "secret_question", "secret_answer_hash",
             "secret_answer_salt", "failed_attempts", "lockout_until",
             "lockout_count"}

EmptyBox == [k \in AuthKeys |-> Absent]

\* StorageBox.get(key, defaultValue)
Get(box, key, defaultValue) ==
    IF box[key] = Absent THEN defaultValue ELSE box[key]

\* StorageBox.put(key, value)
Put(box, key, value) == [box EXCEPT ![key] = value]

\* What StorageBox.get returns, key by key, when shelve.open raises for the
\* keys in failing: the except branch returns defaultValue, as for a
\* missing key
ReadFailing(box, failing) ==
    [k \in AuthKeys |-> IF k \in failing THEN Absent ELSE box[k]]

\* StorageBox.put when shelve.open may raise: the except branch prints and
\* returns, so the caller sees no exception and the store is as it was
put(box, key, value, fails) ==
    [db |-> IF fails THEN box ELSE Put(box, key, value), raised |-> FALSE]

\* StorageBox.clear_all()
clear_all(box) == EmptyBox

\* StorageBox.add(value): items.append(value)
add(items, value) == Append(items, value)

\* StorageBox.update_at(index, value), index counted from 0
update_at(items, index, value) ==
    IF 0 <= index /\ index < Len(items)
    THEN [items EXCEPT ![index + 1] = value]
    ELSE items

\* list.pop(index) of Python: a negative index counts from the end
Pop(items, index) ==
    LET k == IF index < 0 THEN Len(items) + index + 1 ELSE index + 1
    IN  SubSeq(items, 1, k - 1) \o SubSeq(items, k + 1, Len(items))

\* A variant of delete_at that checks only the upper end of the index range
delete_at_upper_only(items, index) ==
    IF index < Len(items) /\ -Len(items) <= index
    THEN Pop(items, index)
    ELSE items

\* StorageBox.delete_at(index), index counted from 0
delete_at(items, index) ==
    IF 0 <= index /\ index < Len(items)
    THEN Pop(items, index)
    ELSE items

\* Python truthiness of a stored value: None, "", 0 and a missing key are falsy
Truthy(v) == v \notin {Absent, None, StrV(<<>>), IntV(0)}

\* datetime.isoformat() / datetime.fromisoformat(): the timestamp is kept in
\* storage as an ISO-8601 string and parsed back on load.
isoformat(t) == <<"iso8601", t>>
IsIso(v) == v[1] = "str" /\ Len(v[2]) = 2 /\ v[2][1] = "iso8601"
fromisoformat(v) == v[2][2]

\* A datetime object held in memory (None when unset)
Datetime(t) == <<"datetime", t>>
Seconds(d) == d[2]

\* ----------------------------------------------------------------- state
VARIABLES
    mobile,           \* is_mobile(): fixed for the installation
    now,              \* datetime.now(), whole seconds
    auth,             \* StorageBox('auth'): key -> stored value
    vault,            \* StorageBox('vault'): the list stored under '_items'
    vpage,            \* the vault page: _search_query, the cards of _content, the record dialog
    failed_attempts,  \* self._failed_attempts
    lockout_until,    \* self._lockout_until: None or a datetime
    lockout_count,    \* self._lockout_count
    screen,           \* the page built last: off, setup1, login, lockout, vault
    dialog,           \* the open modal dialog, or "none"
    dialog_err,       \* err_text.value of the open dialog
    sessions,         \* closures of _build_verification_page, by session number
    on_login,         \* page.on_login: the session whose callback is installed
    login_pending,    \* page.login requests whose LoginEvent is not yet delivered
    timers,           \* pending threading.Timer(1, update_countdown)
    unlock,           \* the session state _check_complete saw when it opened the vault
    setup_data,       \* self._setup_data: key -> value
    register_btn,     \* the register button of the setup page shown is enabled
    setup_threads,    \* setup threads running, by the place they sleep at
    final,            \* verified and current_step of the _build_setup_final closure
    pc,               \* the write a running passkey handler does next, or "idle"
    streak,           \* history: failed passkey attempts in a row since an empty lockout state
    recovered,        \* history: failed passkey attempts in a row since a recovery reset
    episodes,         \* history: lockouts since install, recovery or full reset
    call              \* history: the helper method called directly, its arguments and result

vars == <<mobile, now, auth, vault, vpage, failed_attempts, lockout_until, lockout_count,
          screen, dialog, dialog_err, sessions, on_login, login_pending, timers,
          unlock, setup_data, register_btn, setup_threads, final, pc,
          streak, recovered, episodes, call>>

Factors == {"passkey", "voice", "face", "fingerprint"}

\* The factors _check_complete requires, in the order _update_content offers them
ordered_factors ==
    IF mobile THEN <<"passkey", "voice", "face", "fingerprint">>
    ELSE <<"passkey", "voice", "face">>

Range(f) == {f[i] : i \in DOMAIN f}

\* verified = {...: False}; current_step = [0]; err_text without an
\* attempts-left message (left = 0) and without a biometric message (err);
\* no worker thread started
NewSession ==
    [verified |-> [f \in Factors |-> FALSE],
     current_step |-> 0,
     left |-> 0,
     err |-> "",
     run |-> [f \in {"voice", "face"} |-> 0],
     marked |-> [f \in {"voice", "face"} |-> 0]]

\* self._setup_data = {}
SetupKeys == {"passkey", "question", "answer"}
NoSetupData == [k \in SetupKeys |-> Absent]

\* The do_register threads of the voice step and of the face step
SetupSteps == {"voice", "face"}
NoSetupThreads == [k \in SetupSteps |-> 0]

\* verified = {...: False}; current_step = [0] of _build_setup_final
NewFinal ==
    [verified |-> [f \in Factors |-> FALSE],
     current_step |-> 0]

\* self._search_query = '', no card in _content, no record dialog opened,
\* nothing copied
NewVaultPage ==
    [search_query |-> <<>>, content |-> <<>>, edit_index |-> None,
     index |-> 0, clipboard |-> <<>>]

\* The part of the state the methods of MyVaultApp read and write, as one
\* record, so that a method is a function from state to state and a handler
\* is the composition of the methods it calls.
App ==
    [auth |-> auth, vault |-> vault, vpage |-> vpage,
     failed_attempts |-> failed_attempts,
     lockout_until |-> lockout_until, lockout_count |-> lockout_count,
     screen |-> screen, dialog |-> dialog, dialog_err |-> dialog_err,
     sessions |-> sessions,
     on_login |-> on_login, login_pending |-> login_pending,
     timers |-> timers, unlock |-> unlock,
     setup_data |-> setup_data, register_btn |-> register_btn,
     setup_threads |-> setup_threads, final |-> final, pc |-> pc]

\* ------------------------------------------------------- passkey helpers
\* _has_passkey
has_passkey(s) == Truthy(Get(s.auth, "pass_hash", None))

\* A variant of _verify_passkey that strips the passkey before hashing it
verify_passkey_stripped(s, passkey) ==
    LET salt == Get(s.auth, "salt", StrV(<<>>))
        pass_hash == Get(s.auth, "pass_hash", StrV(<<>>))
    IN  StrV(hash_passkey(Strip(passkey), ValueOf(salt))) = pass_hash

\* A variant of _verify_passkey that accepts when no hash can be read
verify_passkey_open(s, passkey) ==
    LET salt == Get(s.auth, "salt", StrV(<<>>))
        pass_hash == Get(s.auth, "pass_hash", StrV(<<>>))
    IN  \/ pass_hash = StrV(<<>>)
        \/ StrV(hash_passkey(passkey, ValueOf(salt))) = pass_hash

\* MyVaultApp._verify_passkey: hmac.compare_digest(_hash_passkey(passkey, salt), pass_hash)
verify_passkey(s, passkey) ==
    LET salt == Get(s.auth, "salt", StrV(<<>>))
        pass_hash == Get(s.auth, "pass_hash", StrV(<<>>))
    IN  StrV(hash_passkey(passkey, ValueOf(salt))) = pass_hash

\* A variant of _save_passkey that stores the passkey itself
save_passkey_plain(s, passkey, salt) ==
    [s EXCEPT !.auth = Put(Put(@, "salt", StrV(salt)),
                           "pass_hash", StrV(passkey))]

\* _save_passkey, with the salt secrets.token_hex(16) drew
save_passkey(s, passkey, salt) ==
    [s EXCEPT !.auth = Put(Put(@, "salt", StrV(salt)),
                           "pass_hash", StrV(hash_passkey(passkey, salt)))]

\* ------------------------------------------------------- lockout helpers
\* A variant of _is_locked_out that never reads the stored lockout_until
loaded_lockout_until_memory_only(s) == s.lockout_until

\* The value _is_locked_out leaves in self._lockout_until: loaded from
\* storage when unset and the stored string parses
loaded_lockout_until(s) ==
    IF s.lockout_until = None
    THEN LET lockout_data == Get(s.auth, "lockout_until", None)
         IN  IF Truthy(lockout_data) /\ IsIso(lockout_data)
             THEN Datetime(fromisoformat(lockout_data))
             ELSE None
    ELSE s.lockout_until

\* The state after _is_locked_out ran
load_lockout(s) == [s EXCEPT !.lockout_until = loaded_lockout_until(s)]

\* The value _is_locked_out returns
is_locked_out(s) ==
    LET until == loaded_lockout_until(s)
    IN  until # None /\ now < Seconds(until)

\* A variant of _get_lockout_remaining without max(0, ...)
get_lockout_remaining_signed(s) ==
    IF s.lockout_until # None
    THEN Seconds(s.lockout_until) - now
    ELSE 0

\* _get_lockout_remaining
get_lockout_remaining(s) ==
    IF s.lockout_until # None
    THEN LET remaining == Seconds(s.lockout_until) - now
         IN  IF remaining > 0 THEN remaining ELSE 0
    ELSE 0

\* b ** e
RECURSIVE Pow(_, _)
Pow(b, e) == IF e <= 0 THEN 1 ELSE b * Pow(b, e - 1)

\* A variant of lockout_time without the min(..., MAX_LOCKOUT_TIME) cap
lockout_time_uncapped(count) ==
    LOCKOUT_BASE_TIME * Pow(LOCKOUT_MULTIPLIER, count - 1)

\* lockout_time of _apply_lockout for the incremented lockout_count
lockout_time(count) ==
    LET t == LOCKOUT_BASE_TIME * Pow(LOCKOUT_MULTIPLIER, count - 1)
    IN  IF t < MAX_LOCKOUT_TIME THEN t ELSE MAX_LOCKOUT_TIME

\* _apply_lockout
apply_lockout(s) ==
    LET count == ValueOf(Get(s.auth, "lockout_count", IntV(0))) + 1
        until == now + lockout_time(count)
    IN  [s EXCEPT !.lockout_count = count,
                  !.lockout_until = Datetime(until),
                  !.failed_attempts = 0,
                  !.auth = Put(Put(Put(@, "lockout_count", IntV(count)),
                                   "lockout_until", StrV(isoformat(until))),
                               "failed_attempts", IntV(0))]

\* _clear_lockout: self._failed_attempts is not assigned
clear_lockout(s) ==
    [s EXCEPT !.lockout_until = None,
              !.lockout_count = 0,
              !.auth = Put(Put(Put(@, "lockout_until", None),
                               "lockout_count", IntV(0)),
                           "failed_attempts", IntV(0))]

\* ------------------------------------------------------------- sessions
\* A session closure is reachable while its controls are on the page, while a
\* worker thread it started runs, or while its _on_login awaits a LoginEvent.
Live(s, i) ==
    \/ s.screen = "login" /\ i = Len(s.sessions)
    \/ \E f \in {"voice", "face"} :
          s.sessions[i].run[f] + s.sessions[i].marked[f] > 0
    \/ s.login_pending > 0 /\ s.on_login = i

\* Unreachable closures are dropped (their state can never be read again):
\* login sessions, and the position a closed record dialog held;
\* the vault page remembers the session that opened it only while shown.
Collect(s) ==
    LET n == Len(s.sessions)
        live == {i \in 1..n : Live(s, i)}
        last == IF live = {} THEN 0 ELSE CHOOSE i \in live : \A j \in live : j <= i
    IN  [s EXCEPT !.sessions = [i \in 1..last |->
                                   IF i \in live THEN s.sessions[i] ELSE NewSession],
                  !.on_login = IF s.login_pending = 0 THEN 0 ELSE @,
                  !.unlock = IF s.screen = "vault" THEN @ ELSE <<>>,
                  !.vpage.edit_index = IF s.dialog = "edit" THEN @ ELSE None,
                  !.vpage.index = IF s.dialog = "delete" THEN @ ELSE 0]

InFlight(s) ==
    LET RECURSIVE Sum(_)
        Sum(i) == IF i = 0 THEN 0
                  ELSE s.sessions[i].run["voice"] + s.sessions[i].marked["voice"]
                       + s.sessions[i].run["face"] + s.sessions[i].marked["face"]
                       + Sum(i - 1)
    IN  Sum(Len(s.sessions)) + s.login_pending

\* ---------------------------------------------------------------- pages
\* str.lower(), over the letters the inputs are made of
lower(text) ==
    [i \in 1..Len(text) |->
        IF text[i] = "A" THEN "a" ELSE IF text[i] = "B" THEN "b" ELSE text[i]]

\* q in text
Contains(text, q) ==
    \E i \in 0..(Len(text) - Len(q)) : SubSeq(text, i + 1, i + Len(q)) = q

\* enumerate(all_items): positions from 0
Enumerate(all_items) ==
    [k \in 1..Len(all_items) |-> [index |-> k - 1, credential |-> all_items[k]]]

\* The condition of the comprehension in _refresh_content
Matches(q, c) == Contains(lower(c.app), q) \/ Contains(lower(c.user), q)

\* _refresh_content with the positions taken after the filter
refresh_content_renumbered(s) ==
    LET q == s.vpage.search_query
        Shown(c) == Matches(q, c)
        filtered == IF q # <<>> THEN Enumerate(SelectSeq(s.vault, Shown))
                    ELSE Enumerate(s.vault)
    IN  [s EXCEPT !.vpage.content = filtered]

\* _refresh_content: one card per record the query keeps, each built with
\* the position enumerate gave the record in the stored list (_content is
\* set by _build_page before any call)
refresh_content(s) ==
    LET q == s.vpage.search_query
        Shown(e) == Matches(q, e.credential)
        filtered == IF q # <<>> THEN SelectSeq(Enumerate(s.vault), Shown)
                    ELSE Enumerate(s.vault)
    IN  [s EXCEPT !.vpage.content = filtered]

\* _build_page: the vault page replaces the controls of the page; a new
\* _content is filled by _refresh_content
build_page(s) == refresh_content([s EXCEPT !.screen = "vault"])

\* _on_search with e.control.value = value
on_search(s, value) ==
    refresh_content([s EXCEPT !.vpage.search_query = Strip(lower(value))])

\* _copy_user(i)
copy_user(s, i) ==
    LET items == s.vault
    IN  IF 0 <= i /\ i < Len(items)
        THEN [s EXCEPT !.vpage.clipboard = items[i + 1].user]
        ELSE s

\* _copy_pass(i)
copy_pass(s, i) ==
    LET items == s.vault
    IN  IF 0 <= i /\ i < Len(items)
        THEN [s EXCEPT !.vpage.clipboard = items[i + 1].pass]
        ELSE s

\* _open_dialog(edit_index): the add dialog (None) or the edit dialog of a
\* position; items[edit_index] raises IndexError for a position outside
\* the list, and the handler ends there
open_dialog(s, edit_index) ==
    IF /\ edit_index # None
       /\ \/ ValueOf(edit_index) >= Len(s.vault)
          \/ ValueOf(edit_index) < 0 - Len(s.vault)
    THEN s
    ELSE [s EXCEPT !.dialog = IF edit_index # None THEN "edit" ELSE "add",
                   !.dialog_err = "",
                   !.vpage.edit_index = edit_index]

\* _open_dialog._save with the values of app_f, usr_f and pas_f
open_dialog_save(s, app_value, user_value, pass_value) ==
    LET a == Strip(app_value)
        u == Strip(user_value)
        p == Strip(pass_value)
        rec == [app |-> a, user |-> u, pass |-> p]
        edit_index == s.vpage.edit_index
    IN  IF a = <<>> \/ u = <<>> \/ p = <<>>
        THEN [s EXCEPT !.dialog_err = "fill_all"]
        ELSE refresh_content(
                 [s EXCEPT !.vault = IF edit_index # None
                                     THEN update_at(@, ValueOf(edit_index), rec)
                                     ELSE add(@, rec),
                           !.dialog = "none"])

\* _open_dialog._close, _confirm_delete._no
close_dialog(s) == [s EXCEPT !.dialog = "none"]

\* _confirm_delete(index)
confirm_delete(s, index) ==
    [s EXCEPT !.dialog = "delete", !.vpage.index = index]

\* _confirm_delete._yes
confirm_delete_yes(s) ==
    refresh_content([s EXCEPT !.vault = delete_at(@, s.vpage.index),
                              !.dialog = "none"])

\* _build_setup_step1
build_setup_step1(s) == [s EXCEPT !.screen = "setup1", !.setup_data = NoSetupData]

RECURSIVE build_verification_page(_)

\* _build_lockout_page.update_countdown
update_countdown(s) ==
    IF get_lockout_remaining(s) > 0
    THEN [s EXCEPT !.timers = @ + 1]
    ELSE build_verification_page(clear_lockout(s))

\* _build_lockout_page: shows the page, then calls update_countdown()
build_lockout_page(s) == update_countdown([s EXCEPT !.screen = "lockout"])

\* _build_verification_page
build_verification_page(s) ==
    IF is_locked_out(s)
    THEN build_lockout_page(load_lockout(s))
    ELSE [load_lockout(s) EXCEPT !.screen = "login",
                                 !.sessions = Append(@, NewSession)]

\* A variant of _check_complete that does not ask for verified['face']
check_complete_without_face(s, i, index) ==
    LET verified == s.sessions[i].verified
        all_ok == /\ verified["passkey"] /\ verified["voice"]
                  /\ (mobile => verified["fingerprint"])
    IN  IF all_ok
        THEN [build_page(s) EXCEPT !.unlock = <<[verified |-> verified, index |-> index]>>]
        ELSE s

\* _build_verification_page._check_complete, called by session i after a
\* Success delivered at AwaitingFactor(index)
check_complete(s, i, index) ==
    LET verified == s.sessions[i].verified
        all_ok == /\ verified["passkey"] /\ verified["voice"] /\ verified["face"]
                  /\ (mobile => verified["fingerprint"])
    IN  IF all_ok
        THEN [build_page(s) EXCEPT !.unlock = <<[verified |-> verified, index |-> index]>>]
        ELSE s

\* A variant of _next_step that does not call _check_complete
next_step_without_check(s, i) ==
    [s EXCEPT !.sessions[i].current_step = @ + 1]

\* _build_verification_page._next_step (_update_content only redraws)
next_step(s, i) ==
    check_complete([s EXCEPT !.sessions[i].current_step = @ + 1], i,
                   s.sessions[i].current_step)

\* A variant of the login _verify_passkey that locks at left < 0
login_verify_passkey_late_lock(s, i, typed) ==
    IF s.failed_attempts >= MAX_ATTEMPTS
    THEN build_lockout_page(apply_lockout(s))
    ELSE IF verify_passkey(s, Strip(typed))
    THEN next_step([s EXCEPT !.sessions[i].verified["passkey"] = TRUE,
                             !.sessions[i].left = 0,
                             !.failed_attempts = 0,
                             !.auth = Put(@, "failed_attempts", IntV(0))], i)
    ELSE LET failed == s.failed_attempts + 1
             s1 == [s EXCEPT !.failed_attempts = failed,
                             !.auth = Put(@, "failed_attempts", IntV(failed))]
             left == MAX_ATTEMPTS - failed
         IN  IF left < 0
             THEN build_lockout_page(apply_lockout(s1))
             ELSE [s1 EXCEPT !.sessions[i].left = left]

\* _build_verification_page._verify_passkey with pass_f.value = typed
login_verify_passkey(s, i, typed) ==
    IF s.failed_attempts >= MAX_ATTEMPTS
    THEN build_lockout_page(apply_lockout(s))
    ELSE IF verify_passkey(s, Strip(typed))
    THEN next_step([s EXCEPT !.sessions[i].verified["passkey"] = TRUE,
                             !.sessions[i].left = 0,
                             !.failed_attempts = 0,
                             !.auth = Put(@, "failed_attempts", IntV(0))], i)
    ELSE LET failed == s.failed_attempts + 1
             s1 == [s EXCEPT !.failed_attempts = failed,
                             !.auth = Put(@, "failed_attempts", IntV(failed))]
             left == MAX_ATTEMPTS - failed
         IN  IF left <= 0
             THEN build_lockout_page(apply_lockout(s1))
             ELSE [s1 EXCEPT !.sessions[i].left = left]

\* _build_verification_page._verify_passkey up to and including its first
\* auth.put; pc names the auth.put of _apply_lockout that comes next.  (A
\* verifying passkey leads to one auth.put only and is taken as a whole.)
attempt_begin(s, i, typed) ==
    IF s.failed_attempts >= MAX_ATTEMPTS
    THEN [s EXCEPT !.pc = "lockout_count"]
    ELSE IF verify_passkey(s, Strip(typed))
    THEN login_verify_passkey(s, i, typed)
    ELSE LET failed == s.failed_attempts + 1
             s1 == [s EXCEPT !.failed_attempts = failed,
                             !.auth = Put(@, "failed_attempts", IntV(failed))]
             left == MAX_ATTEMPTS - failed
         IN  IF left <= 0
             THEN [s1 EXCEPT !.pc = "lockout_count"]
             ELSE [s1 EXCEPT !.sessions[i].left = left]

\* The next auth.put of _apply_lockout, with the assignment before it; after
\* the last one the handler goes on to _build_lockout_page
attempt_step(s) ==
    IF s.pc = "lockout_count"
    THEN LET count == ValueOf(Get(s.auth, "lockout_count", IntV(0))) + 1
         IN  [s EXCEPT !.lockout_count = count,
                       !.auth = Put(@, "lockout_count", IntV(count)),
                       !.pc = "lockout_until"]
    ELSE IF s.pc = "lockout_until"
    THEN LET until == now + lockout_time(s.lockout_count)
         IN  [s EXCEPT !.lockout_until = Datetime(until),
                       !.auth = Put(@, "lockout_until", StrV(isoformat(until))),
                       !.pc = "failed_attempts"]
    ELSE build_lockout_page([s EXCEPT !.failed_attempts = 0,
                                      !.auth = Put(@, "failed_attempts", IntV(0)),
                                      !.pc = "idle"])

\* _build_verification_page._verify_voice / _verify_face: the click starts
\* a worker thread for session i
start_worker(s, i, f) == [s EXCEPT !.sessions[i].run[f] = @ + 1]

\* A variant of do_verify that rebuilds verified with only its own factor
worker_mark_rebuilding(s, i, f) ==
    [s EXCEPT !.sessions[i].run[f] = @ - 1,
              !.sessions[i].marked[f] = @ + 1,
              !.sessions[i].verified = [g \in Factors |-> g = f]]

\* do_verify up to time.sleep(0.8): verified[f] = True
worker_mark(s, i, f) ==
    [s EXCEPT !.sessions[i].run[f] = @ - 1,
              !.sessions[i].marked[f] = @ + 1,
              !.sessions[i].verified[f] = TRUE]

\* do_verify after time.sleep(0.8): _next_step()
worker_next(s, i, f) == next_step([s EXCEPT !.sessions[i].marked[f] = @ - 1], i)

\* A variant of _verify_fingerprint that reports a raising provider like a
\* failed check
verify_fingerprint_as_failure(s, i, raises) ==
    IF raises
    THEN [s EXCEPT !.on_login = i,
                   !.sessions[i].err = "biometric_fail"]
    ELSE [s EXCEPT !.on_login = i, !.login_pending = @ + 1]

\* _verify_fingerprint on mobile: installs _on_login, then page.login either
\* raises (biometric_unavailable) or leaves a LoginEvent to come
verify_fingerprint(s, i, raises) ==
    IF raises
    THEN [s EXCEPT !.on_login = i,
                   !.sessions[i].err = "biometric_unavailable"]
    ELSE [s EXCEPT !.on_login = i, !.login_pending = @ + 1]

\* A variant of _on_login that counts e.error as a failed attempt
on_login_event_counting(s, i, error) ==
    LET s1 == [s EXCEPT !.login_pending = @ - 1]
    IN  IF error
        THEN [s1 EXCEPT !.sessions[i].err = "biometric_fail",
                        !.failed_attempts = @ + 1,
                        !.auth = Put(@, "failed_attempts", IntV(s.failed_attempts + 1))]
        ELSE check_complete([s1 EXCEPT !.sessions[i].verified["fingerprint"] = TRUE],
                            i, s.sessions[i].current_step)

\* _verify_fingerprint._on_login of session i receiving LoginEvent e
on_login_event(s, i, error) ==
    LET s1 == [s EXCEPT !.login_pending = @ - 1]
    IN  IF error
        THEN [s1 EXCEPT !.sessions[i].err = "biometric_fail"]
        ELSE check_complete([s1 EXCEPT !.sessions[i].verified["fingerprint"] = TRUE],
                            i, s.sessions[i].current_step)

\* ------------------------------------------------------ recovery helpers
\* _save_secret_question with the salt secrets.token_hex(16) drew
save_secret_question(s, question_key, answer, answer_salt) ==
    [s EXCEPT !.auth =
        Put(Put(Put(@, "secret_question", StrV(question_key)),
                "secret_answer_hash",
                StrV(hash_passkey(Lower(Strip(answer)), answer_salt))),
            "secret_answer_salt", StrV(answer_salt))]

\* A variant of _verify_secret_answer that does not lower-case the answer
verify_secret_answer_case_sensitive(s, answer) ==
    LET stored_hash == Get(s.auth, "secret_answer_hash", StrV(<<>>))
        salt == Get(s.auth, "secret_answer_salt", StrV(<<>>))
    IN  StrV(hash_passkey(Strip(answer), ValueOf(salt))) = stored_hash

\* _verify_secret_answer
verify_secret_answer(s, answer) ==
    LET stored_hash == Get(s.auth, "secret_answer_hash", StrV(<<>>))
        salt == Get(s.auth, "secret_answer_salt", StrV(<<>>))
    IN  StrV(hash_passkey(Lower(Strip(answer)), ValueOf(salt))) = stored_hash

\* A variant of _open_forgot_passkey that does not look for a stored question
open_forgot_passkey_unchecked(s) ==
    [s EXCEPT !.dialog = "forgot", !.dialog_err = ""]

\* _open_forgot_passkey
open_forgot_passkey(s) ==
    IF ~Truthy(Get(s.auth, "secret_question", None))
    THEN s
    ELSE [s EXCEPT !.dialog = "forgot", !.dialog_err = ""]

\* A variant of _open_forgot_passkey._verify that counts a wrong answer
\* like a failed passkey attempt
forgot_verify_counting(s, answer) ==
    IF verify_secret_answer(s, answer)
    THEN [s EXCEPT !.dialog = "reset_passkey", !.dialog_err = ""]
    ELSE [s EXCEPT !.dialog_err = "answer_wrong",
                   !.failed_attempts = @ + 1,
                   !.auth = Put(@, "failed_attempts", IntV(s.failed_attempts + 1))]

\* _open_forgot_passkey._verify: a correct answer closes the dialog and
\* calls _open_reset_passkey
forgot_verify(s, answer) ==
    IF verify_secret_answer(s, answer)
    THEN [s EXCEPT !.dialog = "reset_passkey", !.dialog_err = ""]
    ELSE [s EXCEPT !.dialog_err = "answer_wrong"]

\* A variant of _open_reset_passkey._save without the length check
reset_save_any_length(s, new_value, con_value, salt) ==
    LET p1 == Strip(new_value)
        p2 == Strip(con_value)
    IN  IF p1 # p2
        THEN [s EXCEPT !.dialog_err = "pass_mismatch"]
        ELSE build_verification_page(
                 [clear_lockout(save_passkey(s, p1, salt)) EXCEPT !.dialog = "none",
                                                                  !.dialog_err = ""])

\* _open_reset_passkey._save with new_f.value = p1 and con_f.value = p2
reset_save(s, new_value, con_value, salt) ==
    LET p1 == Strip(new_value)
        p2 == Strip(con_value)
    IN  IF Len(p1) < 4
        THEN [s EXCEPT !.dialog_err = "pass_too_short"]
        ELSE IF p1 # p2
        THEN [s EXCEPT !.dialog_err = "pass_mismatch"]
        ELSE build_verification_page(
                 [clear_lockout(save_passkey(s, p1, salt)) EXCEPT !.dialog = "none",
                                                                  !.dialog_err = ""])

\* ------------------------------------------------------ settings dialogs
\* _open_settings
open_settings(s) == [s EXCEPT !.dialog = "settings", !.dialog_err = ""]

\* _open_settings._do_change_passkey: closes the settings dialog and calls
\* _open_change_passkey
do_change_passkey(s) == [s EXCEPT !.dialog = "change_passkey", !.dialog_err = ""]

\* A variant of _open_change_passkey._save that does not verify the current
\* passkey
change_save_unverified(s, cur_value, new_value, con_value, salt) ==
    LET p1 == Strip(new_value)
        p2 == Strip(con_value)
    IN  IF Len(p1) < 4
        THEN [s EXCEPT !.dialog_err = "pass_too_short"]
        ELSE IF p1 # p2
        THEN [s EXCEPT !.dialog_err = "pass_mismatch"]
        ELSE [save_passkey(s, p1, salt) EXCEPT !.dialog = "none",
                                               !.dialog_err = ""]

\* _open_change_passkey._save with cur_f.value = cur_value,
\* new_f.value = new_value and con_f.value = con_value
change_save(s, cur_value, new_value, con_value, salt) ==
    LET c == Strip(cur_value)
        p1 == Strip(new_value)
        p2 == Strip(con_value)
    IN  IF ~verify_passkey(s, c)
        THEN [s EXCEPT !.dialog_err = "wrong_current"]
        ELSE IF Len(p1) < 4
        THEN [s EXCEPT !.dialog_err = "pass_too_short"]
        ELSE IF p1 # p2
        THEN [s EXCEPT !.dialog_err = "pass_mismatch"]
        ELSE [save_passkey(s, p1, salt) EXCEPT !.dialog = "none",
                                               !.dialog_err = ""]

\* _confirm_reset._yes (the vault and settings boxes are cleared as well)
confirm_reset_yes(s) ==
    build_setup_step1([s EXCEPT !.vault = <<>>, !.auth = clear_all(@),
                                !.dialog = "none", !.dialog_err = ""])

\* ----------------------------------------------------------------- setup
\* _build_setup_step2 .. _build_setup_step5: the page replaces the controls;
\* the register button of the voice and face steps starts enabled
build_setup_step2(s) == [s EXCEPT !.screen = "setup2", !.dialog_err = ""]
build_setup_step3(s) ==
    [s EXCEPT !.screen = "setup3", !.dialog_err = "", !.register_btn = TRUE]
build_setup_step4(s) ==
    [s EXCEPT !.screen = "setup4", !.dialog_err = "", !.register_btn = TRUE]
build_setup_step5(s) == [s EXCEPT !.screen = "setup5", !.dialog_err = ""]

\* _build_setup_final: a new closure; content_area is filled once, with the
\* controls of step 0 (the passkey field), and no handler refreshes it
build_setup_final(s) ==
    [s EXCEPT !.screen = "final", !.dialog_err = "", !.final = NewFinal]

\* _build_setup_step1._next with new_f.value and con_f.value
setup1_next(s, new_value, con_value) ==
    LET p1 == Strip(new_value)
        p2 == Strip(con_value)
    IN  IF Len(p1) < 4
        THEN [s EXCEPT !.dialog_err = "pass_too_short"]
        ELSE IF p1 # p2
        THEN [s EXCEPT !.dialog_err = "pass_mismatch"]
        ELSE build_setup_step2([s EXCEPT !.setup_data["passkey"] = StrV(p1)])

\* _build_setup_step2._next with question_dd.value = q (None when nothing
\* is selected) and answer_f.value
setup2_next(s, q, answer_value) ==
    LET a == Strip(answer_value)
    IN  IF ~Truthy(q)
        THEN [s EXCEPT !.dialog_err = "select_question"]
        ELSE IF Len(a) < 2
        THEN [s EXCEPT !.dialog_err = "answer_hint"]
        ELSE build_setup_step3([s EXCEPT !.setup_data["question"] = q,
                                         !.setup_data["answer"] = StrV(a)])

\* _register of the voice step or the face step, device available: the
\* button is disabled and a do_register thread starts
setup_register(s, step) ==
    [s EXCEPT !.register_btn = FALSE, !.setup_threads[step] = @ + 1]

\* The end of do_register (the *_registered flags it puts into _setup_data
\* are read nowhere)
do_register_done(s, step) ==
    LET t == [s EXCEPT !.setup_threads[step] = @ - 1]
    IN  IF step = "voice" THEN build_setup_step4(t)
        ELSE IF mobile THEN build_setup_step5(t)
        ELSE build_setup_final(t)

\* _complete_setup with the salts secrets.token_hex(16) drew; a key missing
\* from _setup_data raises KeyError and ends the handler there
complete_setup(s, salt, answer_salt) ==
    IF s.setup_data["passkey"] = Absent THEN s
    ELSE LET t == save_passkey(s, ValueOf(s.setup_data["passkey"]), salt)
         IN  IF s.setup_data["question"] = Absent \/ s.setup_data["answer"] = Absent
             THEN t
             ELSE build_page(
                      [save_secret_question(t, ValueOf(s.setup_data["question"]),
                                            ValueOf(s.setup_data["answer"]),
                                            answer_salt)
                       EXCEPT !.setup_data = NoSetupData])

\* _build_setup_final._check_all_verified
check_all_verified(s, salt, answer_salt) ==
    LET verified == s.final.verified
        all_verified == /\ verified["passkey"] /\ verified["voice"] /\ verified["face"]
                        /\ (mobile => verified["fingerprint"])
    IN  IF all_verified THEN complete_setup(s, salt, answer_salt) ELSE s

\* _build_setup_final._next_verification
next_verification(s, salt, answer_salt) ==
    check_all_verified([s EXCEPT !.final.current_step = @ + 1], salt, answer_salt)

\* _build_setup_final._verify_passkey with pass_f.value = typed
final_verify_passkey(s, typed, salt, answer_salt) ==
    IF StrV(Strip(typed)) = Get(s.setup_data, "passkey", StrV(<<>>))
    THEN next_verification([s EXCEPT !.final.verified["passkey"] = TRUE,
                                     !.dialog_err = ""],
                           salt, answer_salt)
    ELSE [s EXCEPT !.dialog_err = "passkey_failed"]

\* ---------------------------------------------------------------- inputs
PK_A == <<"a", "a", "a", "a">>
PK_B == <<"b", "b", "b", "b">>
\* A salt secrets.token_hex(16) draws after the install (which drew s1 and s2)
Salts == {"s3"}
Question == <<"q_birth_city">>
Answer == <<"P", "a">>

\* What the user types into the passkey field of the login page
LoginInputs == {PK_A, PK_B, <<" ">> \o PK_A}
\* What the user types into the secret-answer field
AnswerInputs == {<<"p", "a", " ">>, <<"b", "b">>}
\* What the user types into the new-passkey and confirm fields
NewPasskeyInputs == {PK_A, PK_B, <<"a", "b", " ">>}
ConfirmInputs == {PK_A, PK_B, <<"a", "b">>}

\* ------------------------------------------------------------- histories
LockoutState(s) ==
    <<s.failed_attempts, s.lockout_count, s.lockout_until,
      s.auth["failed_attempts"], s.auth["lockout_count"], s.auth["lockout_until"]>>

\* failed_attempts = 0, lockout_count = 0 and no lockout_until, in memory
\* and in storage
EmptyLockout(s) ==
    /\ s.failed_attempts = 0 /\ s.lockout_count = 0 /\ s.lockout_until = None
    /\ s.auth["failed_attempts"] \in {Absent, IntV(0)}
    /\ s.auth["lockout_count"] \in {Absent, IntV(0)}
    /\ s.auth["lockout_until"] \in {Absent, None}

\* streak after a step that is not an evaluated, failed passkey attempt
StreakAfter(r) ==
    IF LockoutState(r) = LockoutState(App) THEN streak
    ELSE IF EmptyLockout(r) THEN 0 ELSE -1

\* ------------------------------------------------------------- the steps
\* The state r a handler leaves becomes the next state; the bounds on the
\* live session closures, threads and timers are enforced here.
Commit(r0) ==
    \E r \in {Collect(r0)} :
        /\ Len(r.sessions) <= MaxSessions
        /\ r.timers <= MaxTimers
        /\ InFlight(r) <= MaxInFlight
        /\ auth' = r.auth
        /\ vault' = r.vault
        /\ vpage' = r.vpage
        /\ failed_attempts' = r.failed_attempts
        /\ lockout_until' = r.lockout_until
        /\ lockout_count' = r.lockout_count
        /\ screen' = r.screen
        /\ dialog' = r.dialog
        /\ dialog_err' = r.dialog_err
        /\ sessions' = r.sessions
        /\ on_login' = r.on_login
        /\ login_pending' = r.login_pending
        /\ timers' = r.timers
        /\ unlock' = r.unlock
        /\ setup_data' = r.setup_data
        /\ register_btn' = r.register_btn
        /\ setup_threads' = r.setup_threads
        /\ final' = r.final
        /\ pc' = r.pc
        /\ call' = call

\* The session whose controls are on the login page
cur == Len(sessions)

\* _update_content: the step whose controls content_area shows.  A step
\* with no branch (3 on desktop, 4 and more) leaves the content as it was.
content_step ==
    LET step == sessions[cur].current_step
        last == IF mobile THEN 3 ELSE 2
    IN  IF step < last THEN step ELSE last

OnLoginPage == screen = "login" /\ dialog = "none"

Init ==
    /\ mobile \in BOOLEAN
    /\ now = 0
    /\ auth = save_secret_question(
                  save_passkey([auth |-> EmptyBox], PK_A, "s1"),
                  Question, Answer, "s2").auth
    /\ failed_attempts = 0
    /\ lockout_until = None
    /\ lockout_count = 0
    /\ screen = "off"
    /\ dialog = "none"
    /\ dialog_err = ""
    /\ sessions = <<>>
    /\ on_login = 0
    /\ login_pending = 0
    /\ timers = 0
    /\ unlock = <<>>
    /\ setup_data = NoSetupData
    /\ vault = <<>>
    /\ vpage = NewVaultPage
    /\ register_btn = FALSE
    /\ setup_threads = NoSetupThreads
    /\ final = NewFinal
    /\ pc = "idle"
    /\ streak = 0
    /\ recovered = -1
    /\ episodes = 0
    /\ call = <<>>

\* A variant of main that does not load failed_attempts from storage
main_without_load ==
    /\ screen = "off"
    /\ \E r \in {IF has_passkey(App) THEN build_verification_page(App)
                   ELSE build_setup_step1(App)} :
            Commit(r) /\ streak' = StreakAfter(r)
    /\ UNCHANGED <<mobile, now, recovered, episodes>>

\* MyVaultApp.main
main ==
    /\ screen = "off"
    /\ LET s == [App EXCEPT !.failed_attempts =
                      ValueOf(Get(auth, "failed_attempts", IntV(0)))]
       IN  \E r \in {IF has_passkey(s) THEN build_verification_page(s)
                      ELSE build_setup_step1(s)} :
               Commit(r) /\ streak' = StreakAfter(r)
    /\ UNCHANGED <<mobile, now, recovered, episodes>>

\* The process ends (every thread and timer with it) and a new MyVaultApp
\* is constructed: __init__
Restart ==
    /\ screen # "off"
    /\ \E r \in {[App EXCEPT !.failed_attempts = 0, !.lockout_until = None,
                                !.lockout_count = 0, !.screen = "off",
                                !.dialog = "none", !.dialog_err = "",
                                !.sessions = <<>>,
                                !.on_login = 0, !.login_pending = 0,
                                !.timers = 0, !.unlock = <<>>,
                                !.setup_data = NoSetupData,
                                !.register_btn = FALSE,
                                !.setup_threads = NoSetupThreads,
                                !.final = NewFinal, !.pc = "idle"]} :
          Commit(r) /\ streak' = StreakAfter(r)
    /\ recovered' = -1
    /\ UNCHANGED <<mobile, now, episodes>>

\* A lockout window that has not yet ended, in memory or in storage
WindowPending ==
    \/ lockout_until # None /\ now < Seconds(lockout_until)
    \/ IsIso(auth["lockout_until"]) /\ now < fromisoformat(auth["lockout_until"])

\* The wall clock advances.  The clock is read only to compare it with
\* lockout_until or to add a window to it, so time that passes while no
\* window is pending changes nothing a later step can observe.
Tick ==
    /\ WindowPending
    /\ now + TickSeconds <= MaxTime
    /\ now' = now + TickSeconds
    /\ UNCHANGED <<mobile, auth, vault, vpage, failed_attempts, lockout_until, lockout_count,
                   screen, dialog, dialog_err, sessions, on_login, login_pending,
                   timers, unlock, setup_data, register_btn, setup_threads,
                   final, pc, streak, recovered, episodes, call>>

\* The passkey attempt is evaluated (not cut short by the failed_attempts
\* check on entry) and the typed passkey does not verify
FailedAttempt(typed) ==
    failed_attempts < MAX_ATTEMPTS /\ ~verify_passkey(App, Strip(typed))

\* The user submits the passkey field of the login page with pass_f.value = typed
SubmitPasskey(typed) ==
    /\ OnLoginPage
    /\ content_step = 0
    /\ \E r \in {login_verify_passkey(App, cur, typed)} :
          /\ Commit(r)
          /\ streak' = IF FailedAttempt(typed) /\ streak >= 0 /\ streak < MAX_ATTEMPTS
                        THEN streak + 1
                        ELSE IF EmptyLockout(r) THEN 0 ELSE -1
          /\ recovered' = IF FailedAttempt(typed) /\ recovered >= 0
                           THEN recovered + 1 ELSE -1
          /\ episodes' = IF r.screen = "lockout" THEN episodes + 1 ELSE episodes
    /\ UNCHANGED <<mobile, now>>

VerifyPasskey == \E typed \in LoginInputs : SubmitPasskey(typed)

\* The user clicks the voice button (step 1) or the face button (step 2)
VerifyVoice ==
    /\ OnLoginPage
    /\ content_step = 1
    /\ Commit(start_worker(App, cur, "voice"))
    /\ UNCHANGED <<mobile, now, streak, recovered, episodes>>

VerifyFace ==
    /\ OnLoginPage
    /\ content_step = 2
    /\ Commit(start_worker(App, cur, "face"))
    /\ UNCHANGED <<mobile, now, streak, recovered, episodes>>

\* A worker thread of some session, current or stale, marks its factor
MarkBy(i, f) ==
    /\ sessions[i].run[f] > 0
    /\ Commit(worker_mark(App, i, f))
    /\ UNCHANGED <<mobile, now, streak, recovered, episodes>>

WorkerMark == \E i \in 1..Len(sessions), f \in {"voice", "face"} : MarkBy(i, f)

\* A worker thread wakes from its sleep and calls _next_step
NextBy(i, f) ==
    /\ sessions[i].marked[f] > 0
    /\ Commit(worker_next(App, i, f))
    /\ UNCHANGED <<mobile, now, streak, recovered, episodes>>

WorkerNext == \E i \in 1..Len(sessions), f \in {"voice", "face"} : NextBy(i, f)

\* The user clicks the fingerprint button (step 3, mobile); page.login
\* raises or not
FingerprintWith(raises) ==
    /\ OnLoginPage
    /\ mobile
    /\ content_step = 3
    /\ Commit(verify_fingerprint(App, cur, raises))
    /\ UNCHANGED <<mobile, now, streak, recovered, episodes>>

VerifyFingerprint == \E raises \in BOOLEAN : FingerprintWith(raises)

\* The platform delivers a LoginEvent to page.on_login
LoginEventWith(error) ==
    /\ login_pending > 0
    /\ Commit(on_login_event(App, on_login, error))
    /\ UNCHANGED <<mobile, now, streak, recovered, episodes>>

LoginEvent == \E error \in BOOLEAN : LoginEventWith(error)

\* A threading.Timer fires update_countdown
TimerFires ==
    /\ timers > 0
    /\ \E r \in {update_countdown([App EXCEPT !.timers = @ - 1])} :
          /\ Commit(r)
          /\ streak' = StreakAfter(r)
          /\ recovered' = IF LockoutState(r) = LockoutState(App) THEN recovered ELSE -1
    /\ UNCHANGED <<mobile, now, episodes>>

\* "Forgot passkey" on the login page or the lockout page
OpenForgotPasskey ==
    /\ screen \in {"login", "lockout"} /\ dialog = "none"
    /\ Commit(open_forgot_passkey(App))
    /\ UNCHANGED <<mobile, now, streak, recovered, episodes>>

\* Verify in the forgot-passkey dialog with answer_f.value = answer
SubmitAnswer(answer) ==
    /\ dialog = "forgot"
    /\ Commit(forgot_verify(App, answer))
    /\ UNCHANGED <<mobile, now, streak, recovered, episodes>>

ForgotVerify == \E answer \in AnswerInputs : SubmitAnswer(answer)

\* Cancel in the forgot-passkey, reset-passkey or reset-vault dialog
CancelDialog ==
    /\ dialog \in {"forgot", "reset_passkey", "confirm_reset"}
    /\ Commit([App EXCEPT !.dialog = "none", !.dialog_err = ""])
    /\ UNCHANGED <<mobile, now, streak, recovered, episodes>>

\* The new passkey passes the checks of _open_reset_passkey._save
Accepted(p1, p2) == Len(Strip(p1)) >= 4 /\ Strip(p1) = Strip(p2)

\* Save in the reset-passkey dialog with new_f.value = p1, con_f.value = p2
SubmitReset(p1, p2) ==
    /\ dialog = "reset_passkey"
    /\ \E salt \in Salts :
          \E r \in {reset_save(App, p1, p2, salt)} :
              /\ Commit(r)
              /\ streak' = StreakAfter(r)
              /\ recovered' = IF Accepted(p1, p2) THEN 0 ELSE recovered
              /\ episodes' = IF Accepted(p1, p2) THEN 0 ELSE episodes
    /\ UNCHANGED <<mobile, now>>

ResetSave == \E p1 \in NewPasskeyInputs, p2 \in ConfirmInputs : SubmitReset(p1, p2)

\* "Reset vault" on the login page or the lockout page: _confirm_reset
ConfirmReset ==
    /\ screen \in {"login", "lockout"} /\ dialog = "none"
    /\ Commit([App EXCEPT !.dialog = "confirm_reset", !.dialog_err = ""])
    /\ UNCHANGED <<mobile, now, streak, recovered, episodes>>

ConfirmResetYes ==
    /\ dialog = "confirm_reset"
    /\ \E r \in {confirm_reset_yes(App)} :
          Commit(r) /\ streak' = StreakAfter(r)
    /\ recovered' = -1
    /\ episodes' = 0
    /\ UNCHANGED <<mobile, now>>

Next ==
    \/ main
    \/ Restart
    \/ Tick
    \/ VerifyPasskey
    \/ VerifyVoice
    \/ VerifyFace
    \/ WorkerMark
    \/ WorkerNext
    \/ VerifyFingerprint
    \/ LoginEvent
    \/ TimerFires
    \/ OpenForgotPasskey
    \/ ForgotVerify
    \/ CancelDialog
    \/ ResetSave
    \/ ConfirmReset
    \/ ConfirmResetYes

Spec == Init /\ [][Next]_vars

\* The lockout policy on its own: the app starts with the lockout_count that
\* k earlier lockouts, each ended while the app was closed, left in storage
\* (the last window ends at the initial instant).
InitPolicy ==
    /\ mobile = FALSE
    /\ now = 0
    /\ \E k \in 0..MaxStoredCount :
          auth = [save_secret_question(
                      save_passkey([auth |-> EmptyBox], PK_A, "s1"),
                      Question, Answer, "s2").auth
                  EXCEPT !["lockout_count"] = IF k = 0 THEN Absent ELSE IntV(k),
                         !["lockout_until"] = IF k = 0 THEN Absent ELSE StrV(isoformat(0)),
                         !["failed_attempts"] = IF k = 0 THEN Absent ELSE IntV(0)]
    /\ failed_attempts = 0
    /\ lockout_until = None
    /\ lockout_count = 0
    /\ screen = "off"
    /\ dialog = "none"
    /\ dialog_err = ""
    /\ sessions = <<>>
    /\ on_login = 0
    /\ login_pending = 0
    /\ timers = 0
    /\ unlock = <<>>
    /\ setup_data = NoSetupData
    /\ vault = <<>>
    /\ vpage = NewVaultPage
    /\ register_btn = FALSE
    /\ setup_threads = NoSetupThreads
    /\ final = NewFinal
    /\ pc = "idle"
    /\ streak = -1
    /\ recovered = -1
    /\ episodes = 0
    /\ call = <<>>

NextPolicy ==
    \/ main
    \/ Restart
    \/ Tick
    \/ VerifyPasskey
    \/ TimerFires

SpecPolicy == InitPolicy /\ [][NextPolicy]_vars

\* ------------------------------------------------------ state functions
\* self._lockout_until is present and now < lockout_until
LockActive == lockout_until # None /\ now < Seconds(lockout_until)

\* The window of the lockout in force: lockout_until - now at the lockout
Window == Seconds(lockout_until) - now

StoredFailed == ValueOf(Get(auth, "failed_attempts", IntV(0)))
StoredCount == ValueOf(Get(auth, "lockout_count", IntV(0)))
StoredUntil == auth["lockout_until"]

\* _apply_lockout ran in this step
LockoutApplied == episodes' = episodes + 1

AllVerified(verified) ==
    \A k \in DOMAIN ordered_factors : verified[ordered_factors[k]]

\* ----------------------------------------------------------------- C1
\* C1: a session is Unlocked (its _check_complete opened the vault page)
\* only if every factor of ordered_factors is marked verified in that
\* session, and the Success that unlocked it was delivered at an index i
\* with i + 1 >= len(ordered_factors).
C1_UnlockedOnlyIfAllVerified ==
    \A u \in Range(unlock) :
        /\ AllVerified(u.verified)
        /\ u.index + 1 >= Len(ordered_factors)

C1_Witness ==
    /\ screen = "vault" /\ mobile
    /\ \E u \in Range(unlock) : u.verified["fingerprint"] /\ u.index = 3

\* ----------------------------------------------------------------- C2
\* C2: from an empty lockout state, the first and second failed passkey
\* attempt in a row do not lock; the third locks with lockout_until =
\* now + 60, lockout_count = 1 and failed_attempts reset to 0.
C2_ThreeStrikes ==
    [][(streak >= 0 /\ streak' = streak + 1) =>
          IF streak' < MAX_ATTEMPTS
          THEN /\ ~LockActive' /\ lockout_until' = None /\ screen' = "login"
               /\ StoredUntil' \in {Absent, None}
               /\ failed_attempts' = streak'
          ELSE /\ LockActive' /\ screen' = "lockout"
               /\ lockout_until' = Datetime(now' + 60)
               /\ StoredUntil' = StrV(isoformat(now' + 60))
               /\ lockout_count' = 1 /\ StoredCount' = 1
               /\ failed_attempts' = 0 /\ StoredFailed' = 0]_vars

C2_Witness == streak = 3 /\ screen = "lockout" /\ lockout_count = 1 /\ LockActive

\* ----------------------------------------------------------------- C3
\* C3: the second lockout since install, recovery or full reset has a
\* window of 120 s and the third a window of 240 s.
C3_EscalatingWindows ==
    [][LockoutApplied =>
          /\ (episodes' = 2 => Window' = 120)
          /\ (episodes' = 3 => Window' = 240)]_vars

\* ----------------------------------------------------------------- C4
\* C4: the persisted lockout_count decreases only in a successful recovery
\* reset or a confirmed full vault reset.
C4_CountNeverDecreases ==
    [][StoredCount' < StoredCount =>
          \/ ConfirmResetYes
          \/ \E p1 \in NewPasskeyInputs, p2 \in ConfirmInputs :
                Accepted(p1, p2) /\ SubmitReset(p1, p2)]_vars

\* ----------------------------------------------------------------- C5
\* min(60 * 2^(lockout_count - 1), 3600), written out
ExpectedWindow(count) ==
    CASE count = 1 -> 60
      [] count = 2 -> 120
      [] count = 3 -> 240
      [] count = 4 -> 480
      [] count = 5 -> 960
      [] count = 6 -> 1920
      [] OTHER -> 3600

\* C5: every lockout sets lockout_until = now + min(60 * 2^(lockout_count-1),
\* 3600) for the incremented lockout_count; the window is at least 60,
\* at most 3600 and not below the window of any smaller lockout_count.
C5_WindowFormula ==
    [][LockoutApplied =>
          /\ lockout_count' >= 1
          /\ StoredCount' = lockout_count'
          /\ Window' = ExpectedWindow(lockout_count')
          /\ StoredUntil' = StrV(isoformat(now' + ExpectedWindow(lockout_count')))
          /\ Window' >= 60 /\ Window' <= 3600
          /\ \A c \in 1..lockout_count' : lockout_time(c) <= Window']_vars

C5_Witness ==
    /\ screen = "lockout" /\ lockout_count >= 7
    /\ lockout_until = Datetime(now + 3600)

\* ----------------------------------------------------------------- C6
\* A successful recovery: the reset-passkey dialog stores the new passkey
AcceptedInputs ==
    {pp \in NewPasskeyInputs \X ConfirmInputs : Accepted(pp[1], pp[2])}

RecoveryReset ==
    /\ dialog = "reset_passkey"
    /\ dialog' = "none"
    /\ \E pp \in AcceptedInputs : SubmitReset(pp[1], pp[2])

\* C6: while the lockout is active no passkey attempt is evaluated and no
\* session passes _check_complete; the lockout page is left only for a fresh
\* login session once the lockout is over (window ended or recovery), for
\* setup step 1 (full vault reset), or because the app is closed.
C6_BlockedWhileLocked ==
    [][/\ LockActive => ~(\E typed \in LoginInputs : SubmitPasskey(typed))
       /\ LockActive => (unlock' = unlock \/ unlock' = <<>>)
       /\ (screen = "lockout" /\ screen' # "lockout") =>
             \/ /\ screen' = "login" /\ ~LockActive'
                /\ sessions'[Len(sessions')] = NewSession
             \/ screen' = "setup1" /\ ConfirmResetYes
             \/ screen' = "off"]_vars

\* ----------------------------------------------------------------- C7
\* A step that calls _build_verification_page: main with a stored passkey,
\* update_countdown with no time remaining, a successful recovery reset
StartsSession ==
    \/ has_passkey(App) /\ main
    \/ get_lockout_remaining(App) = 0 /\ TimerFires
    \/ RecoveryReset

\* C7: a login session that is started is Blocked (lockout page) iff
\* lockout_until, taken from memory or else loaded from storage, is present
\* and now < lockout_until; otherwise it is at AwaitingFactor(0) with no
\* factor verified.
C7_InitialState ==
    [][StartsSession =>
          /\ (screen' = "lockout") <=> LockActive'
          /\ lockout_until' = None =>
                ~(IsIso(StoredUntil') /\ now' < fromisoformat(StoredUntil'))
          /\ screen' # "lockout" =>
                /\ screen' = "login"
                /\ sessions'[Len(sessions')] = NewSession]_vars

\* Blocked at app start: the lockout was loaded from storage
C7_Witness ==
    /\ screen = "lockout" /\ LockActive
    /\ lockout_count = 0 /\ StoredCount = 1

\* ----------------------------------------------------------------- C8
\* C8: a failed passkey attempt adds one to failed_attempts in memory and
\* in storage; below MAX_ATTEMPTS the session stays at step 0 with the
\* passkey unverified and shows MAX_ATTEMPTS - failed_attempts (1 or 2)
\* attempts left; at MAX_ATTEMPTS the session becomes Blocked.
C8_FailedAttempt ==
    [][\A typed \in LoginInputs :
          (SubmitPasskey(typed) /\ FailedAttempt(typed)) =>
             IF failed_attempts + 1 < MAX_ATTEMPTS
             THEN /\ failed_attempts' = failed_attempts + 1
                  /\ StoredFailed' = StoredFailed + 1
                  /\ screen' = "login" /\ Len(sessions') = Len(sessions)
                  /\ sessions'[cur].current_step = 0
                  /\ ~sessions'[cur].verified["passkey"]
                  /\ sessions'[cur].left = MAX_ATTEMPTS - failed_attempts'
                  /\ sessions'[cur].left \in {1, 2}
             ELSE screen' = "lockout" /\ LockActive']_vars

\* ----------------------------------------------------------------- C9
\* C9: whenever a session is Unlocked, failed_attempts is 0 in memory and
\* in storage.
C9_UnlockedNoFailures ==
    unlock # <<>> => failed_attempts = 0 /\ StoredFailed = 0

\* ---------------------------------------------------------------- C10
\* C10: after a successful recovery it takes exactly 3 further failed
\* passkey attempts to lock, and that lockout has the 60 s window.
C10_FreshCycleAfterRecovery ==
    [][(recovered >= 0 /\ recovered' = recovered + 1) =>
          /\ (screen' = "lockout") <=> (recovered' = MAX_ATTEMPTS)
          /\ screen' = "lockout" => Window' = 60 /\ lockout_count' = 1]_vars

\* ---------------------------------------------------------------- C11
\* The factors marked verified in the closure sess
VerifiedSet(sess) == {f \in Factors : sess.verified[f]}

\* The current session has no worker thread and no LoginEvent under way
Idle == InFlight(App) = 0

\* The passkey submitted verifies and the attempt is evaluated
PasskeySuccess ==
    \E typed \in LoginInputs :
        /\ failed_attempts < MAX_ATTEMPTS /\ verify_passkey(App, Strip(typed))
        /\ SubmitPasskey(typed)

\* C11: on desktop, one Success per factor in order: the passkey Success
\* takes the session from step 0 with verified = {} to step 1 with
\* {passkey}; the one voice check marks voice and takes it to step 2 with
\* {passkey, voice}; the one face check marks face and its _next_step opens
\* the vault with {passkey, voice, face}.
C11_EndToEnd ==
    [][(~mobile /\ screen = "login") =>
        /\ (Idle /\ PasskeySuccess) =>
              /\ VerifiedSet(sessions[cur]) = {}
              /\ screen' = "login" /\ Len(sessions') = cur
              /\ sessions'[cur].current_step = 1
              /\ VerifiedSet(sessions'[cur]) = {"passkey"}
        /\ (InFlight(App) = 1 /\ sessions[cur].current_step = 1
                /\ MarkBy(cur, "voice")) =>
              /\ sessions'[cur].current_step = 1
              /\ VerifiedSet(sessions'[cur]) = {"passkey", "voice"}
        /\ (InFlight(App) = 1 /\ sessions[cur].current_step = 1
                /\ NextBy(cur, "voice")) =>
              /\ screen' = "login" /\ Len(sessions') = cur
              /\ sessions'[cur].current_step = 2
              /\ VerifiedSet(sessions'[cur]) = {"passkey", "voice"}
              /\ InFlight(App)' = 0
        /\ (InFlight(App) = 1 /\ sessions[cur].current_step = 2
                /\ MarkBy(cur, "face")) =>
              /\ sessions'[cur].current_step = 2
              /\ VerifiedSet(sessions'[cur]) = {"passkey", "voice", "face"}
        /\ (InFlight(App) = 1 /\ sessions[cur].current_step = 2
                /\ NextBy(cur, "face")) =>
              /\ screen' = "vault"
              /\ unlock' = <<[verified |-> [f \in Factors |-> f # "fingerprint"],
                              index |-> 2]>>]_vars

C11_Witness ==
    /\ ~mobile /\ screen = "vault" /\ Idle
    /\ unlock = <<[verified |-> [f \in Factors |-> f # "fingerprint"], index |-> 2]>>

\* ---------------------------------------------------------------- C12
\* C12: a failed check of a factor other than the passkey (the LoginEvent of
\* the fingerprint check arriving with e.error; the voice and face checks
\* have no failing outcome) leaves the page, the lockout state in memory and
\* in storage, and the verified factors and current_step of the session on
\* the login page unchanged, and the fingerprint button stays available.
C12_FactorFailure ==
    [][LoginEventWith(TRUE) =>
        /\ screen' = screen /\ dialog' = dialog /\ unlock' = unlock
        /\ failed_attempts' = failed_attempts
        /\ lockout_count' = lockout_count
        /\ lockout_until' = lockout_until
        /\ auth' = auth
        /\ timers' = timers
        /\ screen = "login" =>
              /\ Len(sessions') = cur
              /\ sessions'[cur].verified = sessions[cur].verified
              /\ sessions'[cur].current_step = sessions[cur].current_step
              /\ content_step' = content_step
        /\ (OnLoginPage /\ on_login = cur) =>
              /\ OnLoginPage' /\ content_step' = 3
              /\ sessions'[cur].err = "biometric_fail"]_vars

\* The fingerprint check failed and has been started again
C12_Witness ==
    /\ screen = "login" /\ on_login = cur /\ login_pending = 1
    /\ sessions[cur].err = "biometric_fail"
    /\ sessions[cur].current_step = 3
    /\ VerifiedSet(sessions[cur]) = {"passkey", "voice", "face"}

\* ---------------------------------------------------------------- C13
\* The first k factors of ordered_factors
FirstFactors(k) ==
    {ordered_factors[j] : j \in 1..(IF k < Len(ordered_factors) THEN k
                                     ELSE Len(ordered_factors))}

\* C13: for the session on the login page, the verified factors are exactly
\* the first current_step factors of ordered_factors whenever none of its
\* checks is between marking its factor and _next_step, and every factor
\* before the one whose controls are shown is verified.
C13_FixedOrder ==
    screen = "login" =>
        /\ (sessions[cur].marked["voice"] = 0 /\ sessions[cur].marked["face"] = 0) =>
              VerifiedSet(sessions[cur]) = FirstFactors(sessions[cur].current_step)
        /\ \A k \in 1..content_step : sessions[cur].verified[ordered_factors[k]]

\* ---------------------------------------------------------------- C14
\* C14: a factor marked verified in a session closure stays marked for as
\* long as the closure is in use; a session that is started has every
\* factor unverified; a restart discards every session.
C14_VerifiedOnlyGrows ==
    [][/\ \A i \in 1..Len(sessions) :
             (Live(App, i) /\ i <= Len(sessions') /\ Live(App, i)') =>
                 \A f \in Factors :
                     sessions[i].verified[f] => sessions'[i].verified[f]
       /\ Len(sessions') > Len(sessions) =>
             /\ Len(sessions') = Len(sessions) + 1
             /\ sessions'[Len(sessions')] = NewSession
       /\ (screen' = "off" /\ Restart) => sessions' = <<>>
       /\ (screen' = "login" /\ StartsSession) =>
             /\ Len(sessions') > Len(sessions)
             /\ VerifiedSet(sessions'[Len(sessions')]) = {}]_vars

\* A session started after a recovery while a check of the session before
\* it, with factors verified, is still running
C14_Witness ==
    /\ Len(sessions) = 2 /\ screen = "login"
    /\ sessions[2] = NewSession
    /\ VerifiedSet(sessions[1]) = {"passkey", "voice", "face"}

StoredPasskey == <<auth["salt"], auth["pass_hash"]>>

\* The lockout state in memory and in storage
LockoutFields == LockoutState(App)

\* C16: the reset-passkey dialog opens only on a secret answer that verifies;
\* the stored passkey is replaced only by Save in that dialog (or removed by
\* a full vault reset); that Save leaves failed_attempts = 0,
\* lockout_count = 0 and no lockout_until, in memory and in storage, and a
\* fresh login session at step 0 with the vault closed; Cancel in the dialog
\* changes neither the stored passkey nor the lockout state.
C16_RecoveryReset ==
    [][/\ (dialog' = "reset_passkey" /\ dialog # "reset_passkey") =>
             /\ dialog = "forgot"
             /\ \E answer \in AnswerInputs :
                   verify_secret_answer(App, answer) /\ ForgotVerify
       /\ StoredPasskey' # StoredPasskey =>
             \/ dialog = "reset_passkey" /\ RecoveryReset
             \/ ConfirmResetYes
       /\ RecoveryReset =>
             /\ EmptyLockout(App)'
             /\ screen' = "login" /\ unlock' = <<>>
             /\ sessions'[Len(sessions')] = NewSession
       /\ (dialog = "reset_passkey" /\ CancelDialog) =>
             /\ StoredPasskey' = StoredPasskey
             /\ LockoutFields' = LockoutFields]_vars

\* ---------------------------------------------------------------- C17
\* C17: a wrong secret answer changes nothing but the error text of the
\* dialog: the lockout state in memory and in storage, the stored passkey and
\* the stored recovery secret are as before, on the login page and on the
\* lockout page; the dialog stays open, and a verifying answer given after
\* wrong ones opens the reset-passkey dialog.
C17_NoAnswerCap ==
    [][\A answer \in AnswerInputs :
          SubmitAnswer(answer) =>
              IF verify_secret_answer(App, answer)
              THEN dialog' = "reset_passkey"
              ELSE /\ auth' = auth
                   /\ LockoutFields' = LockoutFields
                   /\ screen' = screen /\ sessions' = sessions
                   /\ timers' = timers
                   /\ dialog' = "forgot" /\ dialog_err' = "answer_wrong"
                   /\ \E good \in AnswerInputs :
                         forgot_verify(App, good).dialog' = "reset_passkey"]_vars

\* A wrong answer was given on the lockout page during the lockout
C17_Witness ==
    /\ screen = "lockout" /\ LockActive
    /\ dialog = "forgot" /\ dialog_err = "answer_wrong"

\* ------------------------------------------------- the credential helpers
\* _save_passkey / _verify_passkey and _save_secret_question /
\* _verify_secret_answer on their own: the install stored a passkey and a
\* recovery answer drawn from all short texts, and the helpers are then
\* called with every short text.  call records the raw texts stored and
\* the last call made.
MaxTextLen == 3
MaxFinalStep == 2
Texts(chars, n) == UNION {[1..k -> chars] : k \in 0..n}
PasskeyTexts == Texts({"a", "A", " "}, MaxTextLen)
AnswerTexts == Texts({"P", "p", " "}, MaxTextLen)

InitCredential ==
    /\ mobile = FALSE
    /\ now = 0
    /\ \E p \in PasskeyTexts \cup {PK_A}, a \in AnswerTexts \cup {Answer} :
          /\ p = PK_A \/ a = Answer
          /\ auth = save_secret_question(
                        save_passkey([auth |-> EmptyBox], p, "s1"),
                        Question, a, "s2").auth
          /\ call = [op |-> "", arg |-> <<>>, result |-> FALSE,
                     passkey |-> p, answer |-> a]
    /\ failed_attempts = 0
    /\ lockout_until = None
    /\ lockout_count = 0
    /\ screen = "off"
    /\ dialog = "none"
    /\ dialog_err = ""
    /\ sessions = <<>>
    /\ on_login = 0
    /\ login_pending = 0
    /\ timers = 0
    /\ unlock = <<>>
    /\ setup_data = NoSetupData
    /\ vault = <<>>
    /\ vpage = NewVaultPage
    /\ register_btn = FALSE
    /\ setup_threads = NoSetupThreads
    /\ final = NewFinal
    /\ pc = "idle"
    /\ streak = 0
    /\ recovered = -1
    /\ episodes = 0

\* self._verify_passkey(passkey)
CallVerifyPasskey ==
    /\ \E passkey \in PasskeyTexts :
          call' = [call EXCEPT !.op = "_verify_passkey", !.arg = passkey,
                               !.result = verify_passkey(App, passkey)]
    /\ UNCHANGED <<mobile, now, auth, vault, vpage, failed_attempts, lockout_until,
                   lockout_count, screen, dialog, dialog_err, sessions,
                   on_login, login_pending, timers, unlock, setup_data,
                   register_btn, setup_threads, final, pc, streak,
                   recovered, episodes>>

\* self._verify_secret_answer(answer)
CallVerifySecretAnswer ==
    /\ \E answer \in AnswerTexts :
          call' = [call EXCEPT !.op = "_verify_secret_answer", !.arg = answer,
                               !.result = verify_secret_answer(App, answer)]
    /\ UNCHANGED <<mobile, now, auth, vault, vpage, failed_attempts, lockout_until,
                   lockout_count, screen, dialog, dialog_err, sessions,
                   on_login, login_pending, timers, unlock, setup_data,
                   register_btn, setup_threads, final, pc, streak,
                   recovered, episodes>>

NextCredential ==
    \/ CallVerifyPasskey
    \/ CallVerifySecretAnswer

SpecCredential == InitCredential /\ [][NextCredential]_vars

\* C18: after _save_secret_question(q, a), _verify_secret_answer(b) is true
\* if and only if trim(lower(b)) = trim(lower(a)), for every stored answer
\* a and every candidate b.
C18_AnswerNormalised ==
    call.op = "_verify_secret_answer" =>
        (call.result <=> Strip(Lower(call.arg)) = Strip(Lower(call.answer)))

\* " p " was verified against a stored "P" and accepted
C18_Witness ==
    /\ call.op = "_verify_secret_answer"
    /\ call.answer = <<"P">> /\ call.arg = <<" ", "p", " ">>
    /\ call.result = TRUE

\* C19: after _save_passkey(p), _verify_passkey(p) is true and
\* _verify_passkey(p') is false for every p' # p; the call returns a
\* boolean for every argument.
C19_VerifyExact ==
    call.op = "_verify_passkey" =>
        /\ call.result \in BOOLEAN
        /\ call.result <=> call.arg = call.passkey

\* A passkey that differs from the stored one only by a leading space was
\* refused
C19_Witness ==
    /\ call.op = "_verify_passkey"
    /\ call.passkey = <<"a", "A">> /\ call.arg = <<" ", "a", "A">>
    /\ call.result = FALSE

\* ------------------------------------------------------ the settings
\* The desktop app with its login page, lockout page and recovery dialogs
\* and, once the vault is open, the settings dialog and the change-passkey
\* dialog.
InitSettings == Init /\ mobile = FALSE

\* The settings button of the vault page
OpenSettings ==
    /\ screen = "vault" /\ dialog = "none"
    /\ Commit(open_settings(App))
    /\ UNCHANGED <<mobile, now, streak, recovered, episodes>>

\* "Change passkey" in the settings dialog
DoChangePasskey ==
    /\ dialog = "settings"
    /\ Commit(do_change_passkey(App))
    /\ UNCHANGED <<mobile, now, streak, recovered, episodes>>

\* Cancel in the settings dialog or in the change-passkey dialog
CloseSettings ==
    /\ dialog \in {"settings", "change_passkey"}
    /\ Commit([App EXCEPT !.dialog = "none", !.dialog_err = ""])
    /\ UNCHANGED <<mobile, now, streak, recovered, episodes>>

\* Save in the change-passkey dialog with cur_f.value = c, new_f.value = p1
\* and con_f.value = p2
SubmitChange(c, p1, p2) ==
    /\ dialog = "change_passkey"
    /\ \E salt \in Salts :
          \E r \in {change_save(App, c, p1, p2, salt)} :
              Commit(r) /\ streak' = StreakAfter(r)
    /\ UNCHANGED <<mobile, now, recovered, episodes>>

ChangeSave ==
    \E c \in LoginInputs, p1 \in NewPasskeyInputs, p2 \in ConfirmInputs :
        SubmitChange(c, p1, p2)

NextSettings ==
    \/ main
    \/ Restart
    \/ Tick
    \/ TimerFires
    \/ OpenForgotPasskey
    \/ ForgotVerify
    \/ CancelDialog
    \/ ResetSave
    \/ VerifyPasskey
    \/ VerifyVoice
    \/ VerifyFace
    \/ WorkerMark
    \/ WorkerNext
    \/ OpenSettings
    \/ DoChangePasskey
    \/ CloseSettings
    \/ ChangeSave

SpecSettings == InitSettings /\ [][NextSettings]_vars

\* The passkeys a user of this model ever types, stripped
TypedPasskeys ==
    {Strip(p) : p \in LoginInputs \cup NewPasskeyInputs \cup ConfirmInputs}

\* The change is refused: the current passkey does not verify, the new one
\* is too short, or the confirmation differs
Refused(c, p1, p2) ==
    \/ ~verify_passkey(App, Strip(c))
    \/ Len(Strip(p1)) < 4
    \/ Strip(p1) # Strip(p2)

\* C20: change-passkey fails closed: when the current passkey does not
\* verify, the new one is too short or the confirmation differs, the stored
\* salt and hash are unchanged, every passkey that verified still does, and
\* the dialog stays open with an error; on success the new passkey verifies
\* and every other passkey, the old one included unless it is the new one,
\* does not; failed_attempts, lockout_count and lockout_until, in memory and
\* in storage, are never modified.
C20_ChangeFailsClosed ==
    [][\A c \in LoginInputs, p1 \in NewPasskeyInputs, p2 \in ConfirmInputs :
          (dialog = "change_passkey" /\ SubmitChange(c, p1, p2)) =>
              /\ LockoutFields' = LockoutFields
              /\ IF Refused(c, p1, p2)
                 THEN /\ StoredPasskey' = StoredPasskey
                      /\ \A old \in TypedPasskeys :
                            verify_passkey(App, old) => verify_passkey(App, old)'
                      /\ dialog' = "change_passkey"
                      /\ dialog_err' \in {"wrong_current", "pass_too_short",
                                          "pass_mismatch"}
                 ELSE /\ verify_passkey(App, Strip(p1))'
                      /\ \A old \in TypedPasskeys :
                            old # Strip(p1) => ~verify_passkey(App, old)'
                      /\ dialog' = "none"]_vars

\* A change was refused for a wrong current passkey while a lockout window
\* was running
C20_Witness ==
    /\ dialog = "change_passkey" /\ dialog_err = "wrong_current"
    /\ LockActive

\* C20 as stated: on every successful change the new passkey verifies and
\* the old one no longer does.
C20_OldNeverVerifies ==
    [][\A c \in LoginInputs, p1 \in NewPasskeyInputs, p2 \in ConfirmInputs :
          (SubmitChange(c, p1, p2) /\ ~Refused(c, p1, p2)) =>
              /\ verify_passkey(App, Strip(p1))'
              /\ \A old \in TypedPasskeys :
                    verify_passkey(App, old) => ~verify_passkey(App, old)']_vars

\* ------------------------------------------------------------ the setup
\* The desktop app from a fresh install (empty auth store) or from a store
\* that holds a passkey and a recovery secret: setup pages, login page,
\* recovery dialogs, vault page, settings and change-passkey dialogs, full
\* reset.  The clock stands still.
InitSetup ==
    /\ mobile = FALSE
    /\ now = 0
    /\ auth \in {EmptyBox,
                 save_secret_question(
                     save_passkey([auth |-> EmptyBox], PK_A, "s1"),
                     Question, Answer, "s2").auth}
    /\ failed_attempts = 0
    /\ lockout_until = None
    /\ lockout_count = 0
    /\ screen = "off"
    /\ dialog = "none"
    /\ dialog_err = ""
    /\ sessions = <<>>
    /\ on_login = 0
    /\ login_pending = 0
    /\ timers = 0
    /\ unlock = <<>>
    /\ setup_data = NoSetupData
    /\ vault = <<>>
    /\ vpage = NewVaultPage
    /\ register_btn = FALSE
    /\ setup_threads = NoSetupThreads
    /\ final = NewFinal
    /\ pc = "idle"
    /\ streak = 0
    /\ recovered = -1
    /\ episodes = 0
    /\ call = <<>>

\* What the user picks in the question dropdown (None: nothing picked) and
\* types into the answer field of setup step 2
QuestionInputs == {None, StrV(Question)}
SetupAnswerInputs == {Answer, <<"p", " ">>}

\* Next on setup step 1 with new_f.value = p1 and con_f.value = p2
SubmitSetup1(p1, p2) ==
    /\ screen = "setup1" /\ dialog = "none"
    /\ \E r \in {setup1_next(App, p1, p2)} :
          Commit(r) /\ streak' = StreakAfter(r)
    /\ UNCHANGED <<mobile, now, recovered, episodes>>

Setup1Next ==
    \E p1 \in NewPasskeyInputs, p2 \in ConfirmInputs : SubmitSetup1(p1, p2)

\* Next on setup step 2
Setup2Next ==
    /\ screen = "setup2" /\ dialog = "none"
    /\ \E q \in QuestionInputs, a \in SetupAnswerInputs :
          \E r \in {setup2_next(App, q, a)} :
              Commit(r) /\ streak' = StreakAfter(r)
    /\ UNCHANGED <<mobile, now, recovered, episodes>>

\* The register button of the voice step (setup3) or the face step (setup4)
SetupRegister ==
    /\ screen \in {"setup3", "setup4"} /\ dialog = "none"
    /\ register_btn
    /\ \E r \in {setup_register(App, IF screen = "setup3" THEN "voice" ELSE "face")} :
          Commit(r) /\ streak' = StreakAfter(r)
    /\ UNCHANGED <<mobile, now, recovered, episodes>>

\* A do_register thread ends and builds the next setup page
DoRegisterDone ==
    /\ \E step \in SetupSteps :
          /\ setup_threads[step] > 0
          /\ \E r \in {do_register_done(App, step)} :
                Commit(r) /\ streak' = StreakAfter(r)
    /\ UNCHANGED <<mobile, now, recovered, episodes>>

\* Verify on the final setup page with pass_f.value = typed
FinalVerifyPasskey ==
    /\ screen = "final" /\ dialog = "none"
    /\ final.current_step < MaxFinalStep
    /\ \E typed \in LoginInputs, salt \in {"s1"}, answer_salt \in {"s2"} :
          \E r \in {final_verify_passkey(App, typed, salt, answer_salt)} :
              Commit(r) /\ streak' = StreakAfter(r)
    /\ UNCHANGED <<mobile, now, recovered, episodes>>

NextSetup ==
    \/ main
    \/ Restart
    \/ Setup1Next
    \/ Setup2Next
    \/ SetupRegister
    \/ DoRegisterDone
    \/ FinalVerifyPasskey
    \/ VerifyPasskey
    \/ VerifyVoice
    \/ VerifyFace
    \/ WorkerMark
    \/ WorkerNext
    \/ OpenForgotPasskey
    \/ ForgotVerify
    \/ CancelDialog
    \/ ResetSave
    \/ ConfirmReset
    \/ ConfirmResetYes
    \/ OpenSettings
    \/ DoChangePasskey
    \/ CloseSettings
    \/ ChangeSave

SpecSetup == InitSetup /\ [][NextSetup]_vars

\* The passkey a stored hash was computed from
HashedPasskey == ValueOf(auth["pass_hash"])[3]

\* The new passkey is too short after trimming or differs from its
\* confirmation
BadPasskey(p1, p2) == Len(Strip(p1)) < 4 \/ Strip(p1) # Strip(p2)

\* C21: on each path that stores a passkey (setup step 1, the reset-passkey
\* dialog, the change-passkey dialog) a passkey shorter than 4 characters
\* after trimming, or one that differs from its confirmation, is rejected
\* with the stored credential and the setup data unchanged; no stored hash
\* and no passkey held for setup is of a passkey shorter than 4 characters.
C21_PasskeyPrecondition ==
    /\ [](/\ has_passkey(App) => Len(HashedPasskey) >= 4
          /\ setup_data["passkey"] # Absent =>
                Len(ValueOf(setup_data["passkey"])) >= 4)
    /\ [][\A p1 \in NewPasskeyInputs, p2 \in ConfirmInputs :
            BadPasskey(p1, p2) =>
                /\ SubmitSetup1(p1, p2) =>
                       /\ auth' = auth /\ setup_data' = setup_data
                       /\ screen' = "setup1"
                /\ SubmitReset(p1, p2) => auth' = auth /\ dialog' = "reset_passkey"
                /\ \A c \in LoginInputs :
                       SubmitChange(c, p1, p2) =>
                           auth' = auth /\ dialog' = "change_passkey"]_vars

\* A too short new passkey was refused in the reset-passkey dialog while a
\* passkey is stored
C21_Witness ==
    /\ has_passkey(App)
    /\ dialog = "reset_passkey" /\ dialog_err = "pass_too_short"

\* ------------------------------------------------------------- crashes
\* The desktop login with the passkey handler taken one auth.put at a time
\* (StorageBox.put opens, writes and closes the shelf on its own), so that
\* the process can end (Restart) between two of them.
AttemptWith(typed) ==
    /\ OnLoginPage /\ content_step = 0 /\ pc = "idle"
    /\ StoredCount < MaxStoredCount
    /\ Commit(attempt_begin(App, cur, typed))
    /\ UNCHANGED <<mobile, now, streak, recovered, episodes>>

AttemptBegin == \E typed \in LoginInputs : AttemptWith(typed)

AttemptStep ==
    /\ pc # "idle"
    /\ Commit(attempt_step(App))
    /\ UNCHANGED <<mobile, now, streak, recovered, episodes>>

NextCrash ==
    \/ main
    \/ Restart
    \/ Tick
    \/ TimerFires
    \/ AttemptBegin
    \/ AttemptStep

SpecCrash == InitSettings /\ [][NextCrash]_vars

\* C22: when the process has ended, at whatever point of a failed passkey
\* attempt or a lockout, storage does not hold failed_attempts >=
\* MAX_ATTEMPTS, and a stored lockout_count of 1 or more comes with a stored
\* lockout_until timestamp.
C22_AtomicLockoutWrites ==
    screen = "off" =>
        /\ StoredFailed < MAX_ATTEMPTS
        /\ StoredCount >= 1 => IsIso(auth["lockout_until"])

\* ---------------------------------------------------------------- C23
\* Session i is not the one whose controls are on the page
LeftSession(i) == ~(screen = "login" /\ i = cur)

\* C23: a voice or face check of a login session the user has left is
\* discarded: when its worker thread marks its factor or calls _next_step,
\* the screen does not change, the vault page is not opened, and the session
\* on the page keeps its verified set and its step.
C23_StaleResultDiscarded ==
    [][\A i \in 1..Len(sessions), f \in {"voice", "face"} :
          ((MarkBy(i, f) \/ NextBy(i, f)) /\ LeftSession(i)) =>
              /\ screen' = screen
              /\ unlock' = unlock
              /\ screen = "login" =>
                    sessions'[Len(sessions')] = sessions[cur]]_vars

\* ---------------------------------------------------------------- C24
\* C24: under any interleaving of clicks on the verify buttons and worker
\* completions, current_step of a session never exceeds
\* len(ordered_factors), and the Success that opens the vault is delivered
\* at an index below len(ordered_factors).
C24_IndexWithinFactors ==
    /\ \A i \in 1..Len(sessions) :
          sessions[i].current_step <= Len(ordered_factors)
    /\ \A u \in Range(unlock) : u.index < Len(ordered_factors)

\* ---------------------------------------------------------------- C25
\* C25: whenever a passkey attempt is evaluated on the login page,
\* lockout_until is absent in memory and no timestamp is stored under
\* lockout_until.
C25_ExpiredLockoutCleared ==
    [][\A typed \in LoginInputs :
          (SubmitPasskey(typed) /\ failed_attempts < MAX_ATTEMPTS) =>
              /\ lockout_until = None
              /\ ~IsIso(auth["lockout_until"])]_vars

\* ---------------------------------------------------------------- C26
\* The message a LoginEvent with e.error would leave for the session on the
\* page
FailureMessage ==
    on_login_event([App EXCEPT !.on_login = cur, !.login_pending = 1],
                   cur, TRUE).sessions[cur].err

\* C26: when the fingerprint provider raises, the session shows
\* biometric_unavailable, which is not the message of a failed check, and
\* the page, the verified factors, current_step and the lockout fields in
\* memory and in storage are unchanged; the fingerprint button stays.
C26_DeviceUnavailable ==
    [][FingerprintWith(TRUE) =>
        /\ screen' = screen /\ dialog' = dialog /\ unlock' = unlock
        /\ LockoutFields' = LockoutFields
        /\ auth' = auth
        /\ Len(sessions') = cur
        /\ sessions'[cur].verified = sessions[cur].verified
        /\ sessions'[cur].current_step = sessions[cur].current_step
        /\ content_step' = 3
        /\ sessions'[cur].err = "biometric_unavailable"
        /\ sessions'[cur].err # FailureMessage]_vars

\* The provider raised at the fingerprint step of a mobile login
C26_Witness ==
    /\ mobile /\ screen = "login"
    /\ sessions[cur].err = "biometric_unavailable"
    /\ sessions[cur].current_step = 3
    /\ VerifiedSet(sessions[cur]) = {"passkey", "voice", "face"}
    /\ login_pending = 0

\* ---------------------------------------------------------------- C27
\* C27: Yes in the reset-vault confirmation empties the auth store, shows
\* setup step 1 and leaves failed_attempts = 0, lockout_count = 0 and no
\* lockout_until in storage and in memory, so that no passkey verifies;
\* No in the confirmation changes nothing but the dialog.
C27_FullReset ==
    [][/\ ConfirmResetYes =>
             /\ auth' = EmptyBox
             /\ screen' = "setup1" /\ dialog' = "none"
             /\ EmptyLockout(App)'
             /\ \A typed \in LoginInputs : ~verify_passkey(App, Strip(typed))'
       /\ (dialog = "confirm_reset" /\ CancelDialog) =>
             /\ auth' = auth /\ screen' = screen
             /\ LockoutFields' = LockoutFields]_vars

\* ---------------------------------------------------------------- C28
\* The record list of StorageBox('vault'), called directly
MaxItems == 3
Records == {"r1", "r2", "r3"}
Indexes == -1..MaxItems

OutsideVault ==
    <<mobile, now, auth, vpage, failed_attempts, lockout_until, lockout_count,
      screen, dialog, dialog_err, sessions, on_login, login_pending, timers,
      unlock, setup_data, register_btn, setup_threads, final, pc, streak,
      recovered, episodes>>

\* self.vault.add(value)
CallAdd ==
    /\ Len(vault) < MaxItems
    /\ \E value \in Records :
          /\ vault' = add(vault, value)
          /\ call' = [op |-> "add", index |-> 0, value |-> value,
                      before |-> vault]
    /\ UNCHANGED OutsideVault

\* self.vault.update_at(index, value)
CallUpdateAt ==
    /\ \E index \in Indexes, value \in Records :
          /\ vault' = update_at(vault, index, value)
          /\ call' = [op |-> "update_at", index |-> index, value |-> value,
                      before |-> vault]
    /\ UNCHANGED OutsideVault

\* self.vault.delete_at(index)
CallDeleteAt ==
    /\ \E index \in Indexes :
          /\ vault' = delete_at(vault, index)
          /\ call' = [op |-> "delete_at", index |-> index, value |-> "",
                      before |-> vault]
    /\ UNCHANGED OutsideVault

NextRecords ==
    \/ CallAdd
    \/ CallUpdateAt
    \/ CallDeleteAt

SpecRecords == InitSettings /\ [][NextRecords]_vars

\* C28: update_at and delete_at with an index outside 0..len-1 leave the
\* list as it was; update_at with a valid index replaces the record at that
\* position and no other; delete_at with a valid index removes that record,
\* keeps the records before it and moves every later record down by one in
\* the same order; add puts the value at the end and keeps every record.
C28_RecordList ==
    call # <<>> =>
        LET b == call.before
            n == Len(call.before)
            i == call.index
            valid == 0 <= call.index /\ call.index <= Len(call.before) - 1
        IN  /\ (call.op \in {"update_at", "delete_at"} /\ ~valid) => vault = b
            /\ (call.op = "update_at" /\ valid) =>
                  /\ Len(vault) = n
                  /\ vault[i + 1] = call.value
                  /\ \A k \in 1..n : k # i + 1 => vault[k] = b[k]
            /\ (call.op = "delete_at" /\ valid) =>
                  /\ Len(vault) = n - 1
                  /\ \A k \in 1..i : vault[k] = b[k]
                  /\ \A k \in (i + 1)..(n - 1) : vault[k] = b[k + 1]
            /\ call.op = "add" =>
                  /\ Len(vault) = n + 1
                  /\ vault[n + 1] = call.value
                  /\ \A k \in 1..n : vault[k] = b[k]

\* The first of three records was deleted and the other two moved down
C28_Witness ==
    /\ call # <<>>
    /\ call.op = "delete_at" /\ call.index = 0
    /\ call.before = <<"r1", "r2", "r3">>
    /\ vault = <<"r2", "r3">>

\* ---------------------------------------------------------------- C29
\* The auth store and the two verification helpers called directly, with
\* reads and writes that may fail
VerifyReads == {"salt", "pass_hash"}
AnswerReads == {"secret_answer_hash", "secret_answer_salt"}
\* The values _save_passkey(PK_B) and _save_secret_question(q, "bb") put
\* with the salt s3
Written ==
    [salt |-> StrV("s3"),
     pass_hash |-> StrV(hash_passkey(PK_B, "s3")),
     secret_answer_hash |-> StrV(hash_passkey(<<"b", "b">>, "s3")),
     secret_answer_salt |-> StrV("s3")]
VerifyArgs == {<<>>, PK_A, PK_B, <<"b", "b">>, <<"P", "a", " ">>}

OutsideAuth ==
    <<mobile, now, vault, vpage, failed_attempts, lockout_until, lockout_count,
      screen, dialog, dialog_err, sessions, on_login, login_pending, timers,
      unlock, setup_data, register_btn, setup_threads, final, pc, streak,
      recovered, episodes>>

\* self.auth.put(key, value)
CallPut ==
    /\ \E key \in VerifyReads \cup AnswerReads, fails \in BOOLEAN :
          \E r \in {put(auth, key, Written[key], fails)} :
              /\ auth' = r.db
              /\ call' = [op |-> "put", arg |-> <<key>>,
                          failing |-> IF fails THEN {key} ELSE {},
                          result |-> FALSE, raised |-> r.raised,
                          before |-> auth]
    /\ UNCHANGED OutsideAuth

\* self.auth.clear_all()
CallClearAll ==
    /\ auth' = clear_all(auth)
    /\ call' = [op |-> "clear_all", arg |-> <<>>, failing |-> {},
                result |-> FALSE, raised |-> FALSE,
                before |-> auth]
    /\ UNCHANGED OutsideAuth

\* self._verify_passkey(passkey) while the reads of the keys in failing fail
CallVerifyPasskeyFailing ==
    /\ \E passkey \in VerifyArgs, failing \in SUBSET VerifyReads :
          call' = [op |-> "_verify_passkey", arg |-> passkey,
                   failing |-> failing,
                   result |-> verify_passkey(
                       [auth |-> ReadFailing(auth, failing)], passkey),
                   raised |-> FALSE, before |-> auth]
    /\ UNCHANGED <<auth, OutsideAuth>>

\* self._verify_secret_answer(answer) while the reads of the keys in failing
\* fail
CallVerifySecretAnswerFailing ==
    /\ \E answer \in VerifyArgs, failing \in SUBSET AnswerReads :
          call' = [op |-> "_verify_secret_answer", arg |-> answer,
                   failing |-> failing,
                   result |-> verify_secret_answer(
                       [auth |-> ReadFailing(auth, failing)], answer),
                   raised |-> FALSE, before |-> auth]
    /\ UNCHANGED <<auth, OutsideAuth>>

NextStorage ==
    \/ CallPut
    \/ CallClearAll
    \/ CallVerifyPasskeyFailing
    \/ CallVerifySecretAnswerFailing

SpecStorage == InitSettings /\ [][NextStorage]_vars

\* C29: _verify_passkey returns false for every argument when a read it
\* does fails or no pass_hash is stored, _verify_secret_answer returns false
\* for every argument when a read it does fails or no secret_answer_hash is
\* stored, and a put whose store cannot be opened raises nothing and leaves
\* the store as it was.
C29_FailuresDenyAccess ==
    call # <<>> =>
        /\ (/\ call.op = "_verify_passkey"
            /\ call.failing # {} \/ auth["pass_hash"] = Absent)
               => call.result = FALSE
        /\ (/\ call.op = "_verify_secret_answer"
            /\ call.failing # {} \/ auth["secret_answer_hash"] = Absent)
               => call.result = FALSE
        /\ call.op = "put" =>
              /\ call.raised = FALSE
              /\ call.failing # {} => auth = call.before

\* The stored passkey was presented while the read of the salt failed, and
\* was refused
C29_Witness ==
    /\ call # <<>>
    /\ call.op = "_verify_passkey" /\ call.arg = PK_A
    /\ call.failing = {"salt"}
    /\ verify_passkey(App, PK_A)
    /\ call.result = FALSE

\* ---------------------------------------------------------------- C30
\* The two lockout helpers called directly, at every second of a short
\* clock, with lockout_until unset, set or only stored
MaxClock == 3
ClockTimes == 0..MaxClock
StoredUntilValues ==
    {Absent, None, StrV(<<"x">>)} \cup {StrV(isoformat(t)) : t \in ClockTimes}

InitLockout ==
    /\ mobile = FALSE
    /\ now \in ClockTimes
    /\ \E v \in StoredUntilValues :
          auth = Put(save_secret_question(
                         save_passkey([auth |-> EmptyBox], PK_A, "s1"),
                         Question, Answer, "s2").auth,
                     "lockout_until", v)
    /\ lockout_until \in {None} \cup {Datetime(t) : t \in ClockTimes}
    /\ failed_attempts = 0
    /\ lockout_count = 0
    /\ screen = "off"
    /\ dialog = "none"
    /\ dialog_err = ""
    /\ sessions = <<>>
    /\ on_login = 0
    /\ login_pending = 0
    /\ timers = 0
    /\ unlock = <<>>
    /\ setup_data = NoSetupData
    /\ vault = <<>>
    /\ vpage = NewVaultPage
    /\ register_btn = FALSE
    /\ setup_threads = NoSetupThreads
    /\ final = NewFinal
    /\ pc = "idle"
    /\ streak = 0
    /\ recovered = -1
    /\ episodes = 0
    /\ call = <<>>

\* self._is_locked_out(): loads the stored timestamp when the field is unset
CallIsLockedOut ==
    /\ lockout_until' = loaded_lockout_until(App)
    /\ call' = [op |-> "_is_locked_out", result |-> is_locked_out(App)]
    /\ UNCHANGED <<mobile, now, auth, vault, vpage, failed_attempts, lockout_count,
                   screen, dialog, dialog_err, sessions, on_login,
                   login_pending, timers, unlock, setup_data, register_btn,
                   setup_threads, final, pc, streak, recovered, episodes>>

\* self._get_lockout_remaining()
CallGetLockoutRemaining ==
    /\ call' = [op |-> "_get_lockout_remaining",
                result |-> get_lockout_remaining(App)]
    /\ UNCHANGED <<auth, OutsideAuth>>

\* A second passes
ClockTick ==
    /\ now < MaxClock
    /\ now' = now + 1
    /\ UNCHANGED <<mobile, auth, vault, vpage, failed_attempts, lockout_until,
                   lockout_count, screen, dialog, dialog_err, sessions,
                   on_login, login_pending, timers, unlock, setup_data,
                   register_btn, setup_threads, final, pc, streak, recovered,
                   episodes, call>>

NextLockout ==
    \/ CallIsLockedOut
    \/ CallGetLockoutRemaining
    \/ ClockTick

SpecLockout == InitLockout /\ [][NextLockout]_vars

\* The lockout_until the helpers work on: the field in memory, or, for
\* _is_locked_out with the field unset, the stored timestamp
HeldUntil == IF lockout_until = None THEN -1 ELSE lockout_until[2]
KnownUntil ==
    IF lockout_until # None THEN lockout_until[2]
    ELSE IF IsIso(auth["lockout_until"]) THEN auth["lockout_until"][2][2]
    ELSE -1

\* C30: _is_locked_out returns true if and only if a lockout_until is
\* present and now < lockout_until; _get_lockout_remaining returns
\* max(0, lockout_until - now) in whole seconds, which is never negative,
\* and 0 when no lockout_until is held.
C30_LockedAndRemaining ==
    /\ is_locked_out(App) <=> (KnownUntil >= 0 /\ now < KnownUntil)
    /\ get_lockout_remaining(App) >= 0
    /\ HeldUntil < 0 => get_lockout_remaining(App) = 0
    /\ HeldUntil >= 0 =>
          get_lockout_remaining(App) =
              IF HeldUntil - now > 0 THEN HeldUntil - now ELSE 0

\* A lockout window that lies in the past is still held in memory
C30_Witness ==
    /\ lockout_until # None /\ now > Seconds(lockout_until)
    /\ call # <<>> /\ call.op = "_get_lockout_remaining"
    /\ call.result = 0
    /\ ~is_locked_out(App)

\* ---------------------------------------------------------------- C31
\* v is a str holding the hex digest of a keyed hash under the salt stored
\* in salt_value
KeyedHashUnder(v, salt_value) ==
    /\ v[1] = "str" /\ Len(v[2]) = 3 /\ v[2][1] = "hmac"
    /\ salt_value[1] = "str" /\ v[2][2] = salt_value[2]

SaltValues == {StrV("s1"), StrV("s2")} \cup {StrV(salt) : salt \in Salts}

\* C31: the auth store holds nothing but salts, keyed hashes under the
\* stored salts, the question id and the lockout fields; neither the
\* passkey nor the answer is stored as typed.
C31_NothingPlain ==
    /\ auth["salt"] \in {Absent} \cup SaltValues
    /\ auth["secret_answer_salt"] \in {Absent} \cup SaltValues
    /\ auth["pass_hash"] # Absent =>
          KeyedHashUnder(auth["pass_hash"], auth["salt"])
    /\ auth["secret_answer_hash"] # Absent =>
          KeyedHashUnder(auth["secret_answer_hash"], auth["secret_answer_salt"])
    /\ auth["secret_question"] \in {Absent, StrV(Question)}
    /\ auth["failed_attempts"] \in {Absent} \cup {IntV(n) : n \in 0..MAX_ATTEMPTS}
    /\ auth["lockout_count"] # Absent => auth["lockout_count"][1] = "int"
    /\ \/ auth["lockout_until"] \in {Absent, None}
       \/ IsIso(auth["lockout_until"])

\* A passkey chosen after the install is stored as its keyed hash
C31_Witness ==
    /\ auth["pass_hash"] = StrV(hash_passkey(PK_B, "s3"))
    /\ auth["salt"] = StrV("s3")
    /\ screen = "login"

\* ---------------------------------------------------------------- C32
\* C32: a countdown timer that fires after its lockout page was left (by a
\* recovery reset or a full vault reset) changes neither the page shown nor
\* the login sessions nor the opened vault.
C32_StaleTimerInert ==
    [][(screen # "lockout" /\ timers > 0 /\ TimerFires) =>
          /\ screen' = screen
          /\ sessions' = sessions
          /\ unlock' = unlock]_vars

\* ---------------------------------------------------------------- C33
\* C33: on the login page at step 0, submitting a passkey that verifies
\* marks the passkey factor of the session verified, keeps the login page
\* and starts no lockout, whatever failed_attempts main loaded.
C33_CorrectPasskeyAccepted ==
    [][\A typed \in LoginInputs :
          (verify_passkey(App, Strip(typed)) /\ AttemptWith(typed)) =>
              /\ screen' = "login"
              /\ pc' = "idle"
              /\ sessions'[cur].verified["passkey"]
              /\ lockout_count' = lockout_count
              /\ lockout_until' = lockout_until
              /\ auth'["lockout_count"] = auth["lockout_count"]]_vars

\* ---------------------------------------------------------------- C34
\* The session on the login page can still get factor number k (from 1)
\* verified: it is verified, or its button is shown now or at a later step,
\* or a check of it is under way
Obtainable(k) ==
    LET f == ordered_factors[k]
        sess == sessions[cur]
    IN  \/ sess.verified[f]
        \/ content_step <= k - 1
        \/ f \in {"voice", "face"} /\ sess.run[f] + sess.marked[f] > 0
        \/ f = "fingerprint" /\ login_pending > 0 /\ on_login = cur

\* C34: the session on the login page is never stuck: every factor that
\* _check_complete asks for can still be verified in it.
C34_NeverStuck ==
    screen = "login" => \A k \in 1..Len(ordered_factors) : Obtainable(k)

\* ---------------------------------------------------------------- C35
\* A recovery question is stored
HasQuestion == Truthy(Get(auth, "secret_question", None))

get_current_ui(step) ==
    IF step = 0 THEN "passkey"
    ELSE IF step = 1 THEN "voice"
    ELSE IF step = 2 THEN "face"
    ELSE IF step = 3 /\ mobile THEN "fingerprint"
    ELSE "none"

\* content_area = ft.Container(content=_get_current_ui()): evaluated once
\* while the page is built, with the current_step of the new closure;
\* nothing assigns content_area.content afterwards
content_area == get_current_ui(NewFinal.current_step)

\* Nothing of the credential or of the recovery secret is in the auth store
NothingPersisted ==
    \A k \in {"pass_hash", "salt", "secret_question",
              "secret_answer_hash", "secret_answer_salt"} : auth[k] = Absent

\* The part of the claim the code keeps: while a setup is under way nothing
\* is persisted, a step that persists is a step of the final page with
\* every factor verified, and a start with nothing persisted shows setup
\* step 1
SetupPersistsAtEndOnly ==
    /\ [](screen \in {"setup1", "setup2", "setup3", "setup4", "setup5", "final"}
              => NothingPersisted)
    /\ [][(NothingPersisted /\ ~NothingPersisted') =>
              /\ screen = "final"
              /\ final'.verified["passkey"]
              /\ final'.verified["voice"]
              /\ final'.verified["face"]]_vars
    /\ [][(NothingPersisted /\ main) => screen' = "setup1"]_vars

\* C36: the final setup step verifies passkey, voice and face one after the
\* other and then persists: the final page offers the check of the step the
\* setup is at.
C36_FinalStepOffersCurrentCheck ==
    screen = "final" => content_area = get_current_ui(final.current_step)

\* ---------------------------------------------------------------- C37
\* The vault page of the desktop app: search field, cards, the add and edit
\* dialog, the delete confirmation, and _build_page called again by a
\* worker thread of the login page.  call records the handler that ran
\* last, the card an open edit or delete dialog was opened from, and the
\* stored list before the handler.
SearchInputs == {<<>>, <<"A">>, <<"b", " ">>}
AppInputs == {<<"A">>, <<" ", "b">>, <<" ">>}
UserInputs == {<<"a">>, <<"u">>}
PassInputs == {<<"p">>, <<>>}

NoCard == [index |-> -1, credential |-> [app |-> <<>>, user |-> <<>>, pass |-> <<>>]]

\* The card the open edit or delete dialog was opened from
DialogCard == IF dialog \in {"edit", "delete"} THEN call.card ELSE NoCard

OutsidePage ==
    <<mobile, now, auth, failed_attempts, lockout_until, lockout_count,
      sessions, on_login, login_pending, timers, unlock, setup_data,
      register_btn, setup_threads, final, pc, streak, recovered, episodes>>

\* The state r0 a handler of the vault page leaves becomes the next state
PageStep(r0, op, index, card) ==
    \E r \in {Collect(r0)} :
        /\ Len(r.vault) <= MaxItems
        /\ vault' = r.vault
        /\ vpage' = r.vpage
        /\ screen' = r.screen
        /\ dialog' = r.dialog
        /\ dialog_err' = r.dialog_err
        /\ call' = [op |-> op, index |-> index, card |-> card, before |-> vault]
        /\ UNCHANGED OutsidePage

\* self._build_page(), as _check_complete calls it
CallBuildPage ==
    \E r \in {build_page(App)} : PageStep(r, "_build_page", 0, DialogCard)

\* Typing into the search field
OnSearch ==
    /\ screen = "vault" /\ dialog = "none"
    /\ \E value \in SearchInputs :
          PageStep(on_search(App, value), "_on_search", 0, NoCard)

\* self._copy_user(i): the button of a card, or any other position
CallCopyUser(i) ==
    /\ screen = "vault" /\ dialog = "none"
    /\ PageStep(copy_user(App, i), "_copy_user", i, NoCard)

\* self._copy_pass(i)
CallCopyPass(i) ==
    /\ screen = "vault" /\ dialog = "none"
    /\ PageStep(copy_pass(App, i), "_copy_pass", i, NoCard)

CopyUser == \E i \in Indexes : CallCopyUser(i)
CopyPass == \E i \in Indexes : CallCopyPass(i)

\* The add button of the vault page
OpenAdd ==
    /\ screen = "vault" /\ dialog = "none"
    /\ PageStep(open_dialog(App, None), "_open_dialog", 0, NoCard)

\* The edit button of a card on the page
OpenEdit ==
    /\ screen = "vault" /\ dialog = "none"
    /\ \E k \in 1..Len(vpage.content) :
          PageStep(open_dialog(App, IntV(vpage.content[k].index)),
                   "_open_edit", vpage.content[k].index, vpage.content[k])

\* The delete button of a card on the page
ConfirmDelete ==
    /\ screen = "vault" /\ dialog = "none"
    /\ \E k \in 1..Len(vpage.content) :
          PageStep(confirm_delete(App, vpage.content[k].index),
                   "_confirm_delete", vpage.content[k].index, vpage.content[k])

\* Save in the add or edit dialog
DialogSave ==
    /\ dialog \in {"add", "edit"}
    /\ \E a \in AppInputs, u \in UserInputs, p \in PassInputs :
          PageStep(open_dialog_save(App, a, u, p), "_save",
                   IF dialog = "edit" THEN ValueOf(vpage.edit_index) ELSE 0,
                   DialogCard)

\* Cancel in the add or edit dialog
DialogClose ==
    /\ dialog \in {"add", "edit"}
    /\ PageStep(close_dialog(App), "_close", 0, DialogCard)

\* Yes in the delete confirmation
DeleteYes ==
    /\ dialog = "delete"
    /\ PageStep(confirm_delete_yes(App), "_yes", vpage.index, DialogCard)

\* No in the delete confirmation
DeleteNo ==
    /\ dialog = "delete"
    /\ PageStep(close_dialog(App), "_no", vpage.index, DialogCard)

NextVault ==
    \/ CallBuildPage
    \/ OnSearch
    \/ CopyUser
    \/ CopyPass
    \/ OpenAdd
    \/ OpenEdit
    \/ ConfirmDelete
    \/ DialogSave
    \/ DialogClose
    \/ DeleteYes
    \/ DeleteNo

SpecVault == InitSettings /\ [][NextVault]_vars

\* Every card on the page carries the position its record has in the
\* stored list, and the cards are in the order of the stored list
CardsAddressRecords ==
    screen = "vault" =>
        /\ \A k \in 1..Len(vpage.content) :
              LET card == vpage.content[k]
              IN  /\ 0 <= card.index /\ card.index < Len(vault)
                  /\ vault[card.index + 1] = card.credential
                  /\ vpage.search_query # <<>> =>
                         Matches(vpage.search_query, card.credential)
        /\ \A k \in 1..Len(vault) :
              (vpage.search_query = <<>> \/ Matches(vpage.search_query, vault[k]))
                  => \E j \in 1..Len(vpage.content) : vpage.content[j].index = k - 1

\* The position an open edit or delete dialog holds is the position of the
\* card it was opened from, and the record stored there is the record that
\* card displays
DialogHoldsCard ==
    /\ dialog = "edit" =>
          /\ vpage.edit_index = IntV(call.card.index)
          /\ vault[call.card.index + 1] = call.card.credential
    /\ dialog = "delete" =>
          /\ vpage.index = call.card.index
          /\ vault[call.card.index + 1] = call.card.credential

\* A confirmed edit replaced the record the card displayed and no other; a
\* confirmed delete removed that record and no other
ConfirmedActsOnCard ==
    (call # <<>> /\ call.card # NoCard /\ dialog = "none") =>
        LET b == call.before
            i == call.card.index
        IN  /\ call.op \in {"_save", "_yes"} => b[i + 1] = call.card.credential
            /\ call.op = "_save" =>
                  /\ Len(vault) = Len(b)
                  /\ \A k \in 1..Len(b) : k # i + 1 => vault[k] = b[k]
            /\ call.op = "_yes" =>
                  /\ Len(vault) = Len(b) - 1
                  /\ \A k \in 1..i : vault[k] = b[k]
                  /\ \A k \in (i + 1)..(Len(b) - 1) : vault[k] = b[k + 1]

\* C37: the position attached to each displayed card is the position of
\* its record in the stored list, with and without a search filter; an
\* edit or delete confirmed in a card's dialog acts on exactly the record
\* that card displayed; copy-user and copy-pass with a position outside
\* the list change nothing.
C37_CardsByPosition ==
    /\ [](CardsAddressRecords /\ DialogHoldsCard /\ ConfirmedActsOnCard)
    /\ [][\A i \in Indexes :
             ((i < 0 \/ i >= Len(vault)) /\ (CallCopyUser(i) \/ CallCopyPass(i)))
                 => UNCHANGED <<vault, vpage, screen, dialog, dialog_err>>]_vars

\* With the search filter hiding the first of three records, the delete
\* opened from the card of the second record was confirmed: the second
\* record is gone, the first and the third are kept
C37_Witness ==
    /\ call # <<>> /\ call.op = "_yes"
    /\ call.card.index = 1
    /\ Len(call.before) = 3
    /\ vpage.search_query # <<>>
    /\ ~Matches(vpage.search_query, call.before[1])
    /\ vault = <<call.before[1], call.before[3]>>

====
